---- MODULE Spec2Model ----
(***************************************************************************)
(* State-machine model of topodaily: the survey entry form                 *)
(* (pages/saisie.py), the survey repository (leves.py), the access policy   *)
(* functions (app.py, auth.py, leves.py), the Suivi delete forms           *)
(* (pages/suivi.py) and the read caches (app.py).                          *)
(*                                                                         *)
(* One Streamlit script run is one step.  st.rerun() ends the run and      *)
(* leaves the flag rerun set; the next step of that session is then the    *)
(* re-run of the script without a user event.                              *)
(***************************************************************************)
EXTENDS Integers, Sequences, FiniteSets, TLC

(***************************************************************************)
(* Bounds and input sets                                                   *)
(***************************************************************************)
MaxLeves == 1

NULL == "<NULL>"

\* ascending order of every name that sorted() is applied to
NameOrder == <<"Arona FALL", "Batiments", "Champs", "Dakar", "LT60H", "Mbour",
               "Mbour 1", "Medina", "Plateau", "Randoulene", "TRIMBLE", "Thies",
               "admin", "alice", "bob", "nan", "root", "tom">>

Range(s) == {s[i] : i \in 1..Len(s)}

\* sorted(list(keys)) : the members of S in ascending order
sorted(S) == SelectSeq(NameOrder, LAMBDA n : n \in S)

\* the mapping load_villages_data returns: region -> commune -> sorted villages
villages_data ==
    [r \in {"Dakar", "Thies"} |->
        IF r = "Dakar"
        THEN [c \in {"Dakar", "Mbour"} |->
                 IF c = "Dakar" THEN <<"Plateau">> ELSE <<"Medina">>]
        ELSE [c \in {"Mbour"} |-> <<"Mbour 1">>]]

Today == 1
FormDates == {Today, Today + 1}
FormTopographes == {"", "Arona FALL"}
appareil_options == <<"LT60H", "TRIMBLE", "AUTRE">>
FormAppareils == {"LT60H"}
type_options == <<"Batiments", "Champs", "Edifice public", "Autre">>
FormTypes == {"Champs"}
FormQuantites == {2}
Pages == {"Dashboard", "Saisie des Leves", "Suivi", "Mon Compte"}

\* the users table: username -> role
Users == [u \in {"admin", "Arona FALL", "tom", "root", "dora"} |->
            CASE u = "admin"      -> "administrateur"
              [] u = "Arona FALL" -> "superviseur"
              [] u = "tom"        -> "topographe"
              [] u = "dora"       -> "superviseur"
              [] OTHER            -> "admin"]

Roles == {"topographe", "superviseur", "administrateur", "admin"}
\* the administrator roles with superviseur listed among them
AdminRoles_with_superviseur == {"administrateur", "admin", "superviseur"}

AdminRoles == {"administrateur", "admin"}

(***************************************************************************)
(* State                                                                   *)
(***************************************************************************)
VARIABLES
    app_state,            \* st.session_state.app_state
    cached_form_data,     \* st.session_state.cached_form_data, the draft
    show_success_message,
    form_submitted,
    region_select,        \* widget state of the selectbox keyed region_select
    commune_select,       \* widget state of the selectbox keyed commune_select
    form_options,         \* the option lists of the last complete render of the form
    rerun,                \* st.rerun() was called: the script runs again
    leves,                \* table leves: id -> row
    next_id,              \* the SERIAL sequence of leves.id
    leves_columns,        \* the columns of table leves besides id and created_at
    cache_all_leves,      \* st.cache_data entry of get_cached_all_leves
    cache_filter_options, \* st.cache_data entry of get_cached_filter_options
    cache_user_leves,     \* st.cache_data entries of get_cached_user_leves, per username
    cache_villages,       \* st.cache_data entry of get_cached_villages_data
    call,                 \* per process: its call of update_leve / delete_user_leve
    policy,               \* arguments and results of the access policy functions
    validation,           \* arguments and result of validate_form_data
    store_op,             \* the last sequential call of leves.py and its result
    hierarchy,            \* rows given to load_villages_data_cached and what was read
    users,                \* table users: id -> row
    next_user_id,         \* the SERIAL sequence of users.id
    acct,                 \* app_state of a session on the account pages
    account_op            \* the last call of init_db / auth.py and its result

session == <<app_state, cached_form_data, show_success_message, form_submitted,
             region_select, commune_select, form_options, rerun>>
db == <<leves, next_id, leves_columns>>
caches == <<cache_all_leves, cache_filter_options, cache_user_leves, cache_villages>>
repo == <<call>>
pure == <<policy, validation, store_op, hierarchy>>
accounts == <<users, next_user_id, acct, account_op>>
vars == <<session, db, caches, repo, pure, accounts>>

(***************************************************************************)
(* Session state and widgets                                               *)
(***************************************************************************)
\* reset_form_state / initialize_session_state: the empty draft
EmptyDraft == [region |-> "", commune |-> "", village |-> "", appareil |-> "",
               type_leve |-> 0, quantite |-> 1, topographe |-> ""]

\* app.initialize_session_state: the state of a session that is not logged in
GuestState == [authenticated |-> FALSE, username |-> NULL, role |-> NULL,
               current_page |-> "Dashboard", show_login |-> FALSE]

\* a widget the session holds no state for
NoWidget == [set |-> FALSE, val |-> "", opts |-> <<>>, idx |-> 0]

\* no complete render of the form is on the page
NoForm == [shown |-> FALSE, region |-> <<>>, commune |-> <<>>, village |-> <<>>,
           message |-> "none"]

NoCache == [valid |-> FALSE, val |-> <<>>]
Cached(v) == [valid |-> TRUE, val |-> v]

\* st.selectbox keeping the value of the key whatever the parameters
st_selectbox_keeps_value(w, options, index) ==
    IF w.set THEN w
    ELSE [set |-> TRUE, val |-> options[index + 1], opts |-> options, idx |-> index]

\* st.selectbox(options, index, key): a widget whose parameters are those of
\* its last render keeps its value; otherwise it is a new widget and takes
\* options[index]
st_selectbox(w, options, index) ==
    IF w.set /\ w.opts = options /\ w.idx = index
    THEN w
    ELSE [set |-> TRUE, val |-> options[index + 1], opts |-> options, idx |-> index]

\* villages.get_index_or_default: 0-based position of value, 0 if absent or empty
get_index_or_default(options_list, value) ==
    IF options_list = <<>> \/ value = "" THEN 0
    ELSE IF value \in Range(options_list)
         THEN (CHOOSE i \in 1..Len(options_list) :
                  /\ options_list[i] = value
                  /\ \A j \in 1..(i - 1) : options_list[j] # value) - 1
         ELSE 0

\* get_filtered_options looking the commune up in the first region that has it
get_filtered_options_any_region(vd, region, commune) ==
    LET having == SelectSeq(sorted(DOMAIN vd), LAMBDA r : commune \in DOMAIN vd[r])
    IN  IF DOMAIN vd = {} THEN << <<"">>, <<"">>, <<"">> >>
        ELSE << <<"">> \o sorted(DOMAIN vd),
                <<"">> \o (IF region # "" /\ region \in DOMAIN vd
                           THEN sorted(DOMAIN vd[region]) ELSE <<>>),
                <<"">> \o (IF region # "" /\ commune # "" /\ having # <<>>
                           THEN vd[having[1]][commune] ELSE <<>>) >>

\* saisie.get_filtered_options: <<region_options, commune_options, village_options>>
get_filtered_options(vd, region, commune) ==
    IF DOMAIN vd = {} THEN << <<"">>, <<"">>, <<"">> >>
    ELSE << <<"">> \o sorted(DOMAIN vd),
            <<"">> \o (IF region # "" /\ region \in DOMAIN vd
                       THEN sorted(DOMAIN vd[region]) ELSE <<>>),
            <<"">> \o (IF /\ region # "" /\ commune # ""
                          /\ region \in DOMAIN vd
                          /\ commune \in DOMAIN vd[region]
                       THEN vd[region][commune] ELSE <<>>) >>

(***************************************************************************)
(* Survey repository (leves.py), sequential part                           *)
(***************************************************************************)
\* the row add_leve inserts; quantite = int(quantite) if quantite else 0
add_leve_row(date, village, region, commune, type_leve, quantite, appareil, topographe, superviseur) ==
    [date |-> date, village |-> village, region |-> region, commune |-> commune,
     type |-> type_leve, quantite |-> quantite, appareil |-> appareil,
     topographe |-> topographe, superviseur |-> superviseur]

\* the columns of the table init_db creates, and of a table that was created
\* with the superviseur column before (CREATE TABLE IF NOT EXISTS keeps it)
InitDbColumns == {"date", "village", "region", "commune", "type", "quantite",
                  "appareil", "topographe"}
DeployedColumns == InitDbColumns \cup {"superviseur"}

\* add_leve returns True: a connection was obtained, the table has every
\* column the INSERT names, and the row met the NOT NULL constraints of
\* village, type and topographe
add_leve_success(conn, row) ==
    /\ conn
    /\ DOMAIN row \subseteq leves_columns
    /\ row.village # NULL /\ row.type # NULL /\ row.topographe # NULL

\* the table after add_leve
add_leve(conn, row) ==
    IF add_leve_success(conn, row) THEN (next_id :> row) @@ leves ELSE leves

\* get_all_leves / get_leves_by_topographe / get_filter_options: query results
get_all_leves == leves
get_leves_by_topographe(topographe) ==
    [i \in {j \in DOMAIN leves : leves[j].topographe = topographe} |-> leves[i]]
get_filter_options ==
    [villages |-> sorted({leves[i].village : i \in DOMAIN leves}),
     regions |-> sorted({leves[i].region : i \in DOMAIN leves}),
     communes |-> sorted({leves[i].commune : i \in DOMAIN leves}),
     types |-> sorted({leves[i].type : i \in DOMAIN leves}),
     appareils |-> sorted({leves[i].appareil : i \in DOMAIN leves}),
     topographes |-> sorted({leves[i].topographe : i \in DOMAIN leves}),
     superviseurs |-> sorted({leves[i].superviseur : i \in DOMAIN leves})]

\* get_leves_by_superviseur: the rows of the superviseur; the query fails, and
\* the result is empty, on a table without the column
get_leves_by_superviseur(superviseur) ==
    IF "superviseur" \in leves_columns
    THEN [i \in {j \in DOMAIN leves : leves[j].superviseur = superviseur} |-> leves[i]]
    ELSE <<>>

(***************************************************************************)
(* Entry form (pages/saisie.py)                                            *)
(***************************************************************************)
\* validate_form_data as an if / elif chain: only the first violated rule
validate_form_data_first_error(date, village, region, commune, type_leve, quantite, appareil, topographe) ==
    IF village = "" THEN <<"village">>
    ELSE IF region = "" THEN <<"region">>
    ELSE IF commune = "" THEN <<"commune">>
    ELSE IF topographe = "" THEN <<"topographe">>
    ELSE IF appareil = "" THEN <<"appareil">>
    ELSE IF type_leve = "" THEN <<"type">>
    ELSE IF quantite <= 0 THEN <<"quantite">>
    ELSE IF date > Today THEN <<"date">>
    ELSE <<>>

\* validate_form_data: the list of violated rules, in the order of the checks
validate_form_data(date, village, region, commune, type_leve, quantite, appareil, topographe) ==
    (IF village = "" THEN <<"village">> ELSE <<>>) \o
    (IF region = "" THEN <<"region">> ELSE <<>>) \o
    (IF commune = "" THEN <<"commune">> ELSE <<>>) \o
    (IF topographe = "" THEN <<"topographe">> ELSE <<>>) \o
    (IF appareil = "" THEN <<"appareil">> ELSE <<>>) \o
    (IF type_leve = "" THEN <<"type">> ELSE <<>>) \o
    (IF quantite <= 0 THEN <<"quantite">> ELSE <<>>) \o
    (IF date > Today THEN <<"date">> ELSE <<>>)

\* update_location_cache with a region branch that only stores the region
update_location_cache_region_only(draft, region, commune, current_region, current_commune) ==
    IF region # current_region
    THEN [draft |-> [draft EXCEPT !.region = region], rerun |-> TRUE]
    ELSE IF commune # current_commune
         THEN [draft |-> [draft EXCEPT !.commune = commune, !.village = ""],
               rerun |-> TRUE]
         ELSE [draft |-> draft, rerun |-> FALSE]

\* update_location_cache with a commune branch that keeps the village
update_location_cache_keeps_village(draft, region, commune, current_region, current_commune) ==
    IF region # current_region
    THEN [draft |-> [draft EXCEPT !.region = region, !.commune = "", !.village = ""],
          rerun |-> TRUE]
    ELSE IF commune # current_commune
         THEN [draft |-> [draft EXCEPT !.commune = commune], rerun |-> TRUE]
         ELSE [draft |-> draft, rerun |-> FALSE]

\* update_location_cache: the draft after the comparison of the selectors with
\* the draft, and whether st.rerun() was called
update_location_cache(draft, region, commune, current_region, current_commune) ==
    IF region # current_region
    THEN [draft |-> [draft EXCEPT !.region = region, !.commune = "", !.village = ""],
          rerun |-> TRUE]
    ELSE IF commune # current_commune
         THEN [draft |-> [draft EXCEPT !.commune = commune, !.village = ""],
               rerun |-> TRUE]
         ELSE [draft |-> draft, rerun |-> FALSE]

\* update_form_cache: the draft holding the submitted values
update_form_cache(draft, region, commune, village, appareil, type_leve, quantite, topographe) ==
    [draft EXCEPT !.region = region, !.commune = commune, !.village = village,
                  !.appareil = appareil,
                  !.type_leve = get_index_or_default(type_options, type_leve),
                  !.quantite = quantite, !.topographe = topographe]

\* app.clear_leves_cache
clear_leves_cache ==
    /\ cache_user_leves' = [u \in DOMAIN cache_user_leves |-> NoCache]
    /\ cache_all_leves' = NoCache
    /\ cache_filter_options' = NoCache

\* st.cache_data.clear(): every cached function loses its entries
st_cache_data_clear ==
    /\ clear_leves_cache
    /\ cache_villages' = NoCache

\* the state of the file Villages.xlsx
VillagesSources == {"ok", "missing", "unreadable", "empty", "no_column"}

\* load_villages_data returning what it had built when the read failed
load_villages_data_partial(source) ==
    IF source = "ok" THEN villages_data
    ELSE IF source = "unreadable" THEN [r \in {"Dakar"} |-> villages_data[r]]
    ELSE <<>>

\* load_villages_data: the mapping of the sheet, or {} when the file is
\* missing, cannot be read, is empty or lacks a required column
load_villages_data(source) ==
    IF source = "ok" THEN villages_data ELSE <<>>

\* get_cached_villages_data: the cached hierarchy, loaded on a miss
get_cached_villages_data ==
    IF cache_villages.valid THEN cache_villages.val ELSE villages_data

\* the user event a script run handles
NoEvent == [kind |-> "none", date |-> Today, village |-> "", type_leve |-> "",
            quantite |-> 1, appareil |-> "", topographe |-> "", leve_id |-> 0,
            username |-> "", password |-> "", conn |-> TRUE]

\* a submission handler that stores the submitted values in the draft before
\* it validates them
handle_form_submission_cache_first(vd, ev, opts) ==
    LET region == cached_form_data.region
        commune == cached_form_data.commune
        validation_errors == validate_form_data(ev.date, ev.village, region, commune,
                                 ev.type_leve, ev.quantite, ev.appareil, ev.topographe)
        row == add_leve_row(ev.date, ev.village, region, commune, ev.type_leve,
                            ev.quantite, ev.appareil, ev.topographe, app_state.username)
    IN  IF validation_errors # <<>> \/ ~add_leve_success(ev.conn, row)
        THEN /\ cached_form_data' = update_form_cache(cached_form_data, region,
                     commune, ev.village, ev.appareil, ev.type_leve, ev.quantite,
                     ev.topographe)
             /\ form_options' = [opts EXCEPT !.message =
                     IF validation_errors # <<>> THEN "validation" ELSE "store_error"]
             /\ rerun' = FALSE
             /\ cache_villages' = Cached(vd)
             /\ UNCHANGED <<show_success_message, form_submitted, db,
                            cache_all_leves, cache_filter_options, cache_user_leves>>
        ELSE /\ leves' = add_leve(ev.conn, row)
             /\ next_id' = next_id + 1
             /\ UNCHANGED leves_columns
             /\ st_cache_data_clear
             /\ show_success_message' = TRUE
             /\ form_submitted' = TRUE
             /\ cached_form_data' = EmptyDraft
             /\ rerun' = TRUE
             /\ form_options' = NoForm

\* a submission handler without reset_form_state: after a stored survey the
\* draft keeps the submitted values
handle_form_submission_no_reset(vd, ev, opts) ==
    LET region == cached_form_data.region
        commune == cached_form_data.commune
        validation_errors == validate_form_data(ev.date, ev.village, region, commune,
                                 ev.type_leve, ev.quantite, ev.appareil, ev.topographe)
        row == add_leve_row(ev.date, ev.village, region, commune, ev.type_leve,
                            ev.quantite, ev.appareil, ev.topographe, app_state.username)
        submitted == update_form_cache(cached_form_data, region, commune, ev.village,
                         ev.appareil, ev.type_leve, ev.quantite, ev.topographe)
    IN  IF validation_errors # <<>>
        THEN /\ form_options' = [opts EXCEPT !.message = "validation"]
             /\ rerun' = FALSE
             /\ cache_villages' = Cached(vd)
             /\ UNCHANGED <<cached_form_data, show_success_message, form_submitted,
                            db, cache_all_leves, cache_filter_options, cache_user_leves>>
        ELSE IF add_leve_success(ev.conn, row)
        THEN /\ leves' = add_leve(ev.conn, row)
             /\ next_id' = next_id + 1
             /\ UNCHANGED leves_columns
             /\ st_cache_data_clear
             /\ show_success_message' = TRUE
             /\ form_submitted' = TRUE
             /\ cached_form_data' = submitted
             /\ rerun' = TRUE
             /\ form_options' = NoForm
        ELSE /\ cached_form_data' = submitted
             /\ form_options' = [opts EXCEPT !.message = "store_error"]
             /\ rerun' = FALSE
             /\ cache_villages' = Cached(vd)
             /\ UNCHANGED <<show_success_message, form_submitted, db,
                            cache_all_leves, cache_filter_options, cache_user_leves>>

\* a submission handler that calls update_form_cache only after add_leve has
\* succeeded: a failed write leaves the draft as it was before the submission
handle_form_submission_cache_after_write(vd, ev, opts) ==
    LET region == cached_form_data.region
        commune == cached_form_data.commune
        validation_errors == validate_form_data(ev.date, ev.village, region, commune,
                                 ev.type_leve, ev.quantite, ev.appareil, ev.topographe)
        row == add_leve_row(ev.date, ev.village, region, commune, ev.type_leve,
                            ev.quantite, ev.appareil, ev.topographe, app_state.username)
    IN  IF validation_errors # <<>> \/ ~add_leve_success(ev.conn, row)
        THEN /\ form_options' = [opts EXCEPT !.message =
                     IF validation_errors # <<>> THEN "validation" ELSE "store_error"]
             /\ rerun' = FALSE
             /\ cache_villages' = Cached(vd)
             /\ UNCHANGED <<cached_form_data, show_success_message, form_submitted,
                            db, cache_all_leves, cache_filter_options, cache_user_leves>>
        ELSE /\ leves' = add_leve(ev.conn, row)
             /\ next_id' = next_id + 1
             /\ UNCHANGED leves_columns
             /\ st_cache_data_clear
             /\ show_success_message' = TRUE
             /\ form_submitted' = TRUE
             /\ cached_form_data' = EmptyDraft
             /\ rerun' = TRUE
             /\ form_options' = NoForm

\* handle_form_submission, with handle_successful_submission and reset_form_state
handle_form_submission(vd, ev, opts) ==
    LET region == cached_form_data.region
        commune == cached_form_data.commune
        validation_errors == validate_form_data(ev.date, ev.village, region, commune,
                                 ev.type_leve, ev.quantite, ev.appareil, ev.topographe)
        row == add_leve_row(ev.date, ev.village, region, commune, ev.type_leve,
                            ev.quantite, ev.appareil, ev.topographe, app_state.username)
    IN  IF validation_errors # <<>>
        THEN /\ form_options' = [opts EXCEPT !.message = "validation"]
             /\ rerun' = FALSE
             /\ cache_villages' = Cached(vd)
             /\ UNCHANGED <<cached_form_data, show_success_message, form_submitted,
                            db, cache_all_leves, cache_filter_options, cache_user_leves>>
        ELSE IF add_leve_success(ev.conn, row)
        THEN /\ leves' = add_leve(ev.conn, row)
             /\ next_id' = next_id + 1
             /\ UNCHANGED leves_columns
             /\ st_cache_data_clear
             /\ show_success_message' = TRUE
             /\ form_submitted' = TRUE
             /\ cached_form_data' = EmptyDraft
             /\ rerun' = TRUE
             /\ form_options' = NoForm
        ELSE /\ cached_form_data' = update_form_cache(cached_form_data, region,
                     commune, ev.village, ev.appareil, ev.type_leve, ev.quantite,
                     ev.topographe)
             /\ form_options' = [opts EXCEPT !.message = "store_error"]
             /\ rerun' = FALSE
             /\ cache_villages' = Cached(vd)
             /\ UNCHANGED <<show_success_message, form_submitted, db,
                            cache_all_leves, cache_filter_options, cache_user_leves>>

\* render_main_form: the selectors, update_location_cache, then the form
render_main_form(vd, rs, cs, ev) ==
    LET current_region == cached_form_data.region
        current_commune == cached_form_data.commune
        o == get_filtered_options(vd, current_region, current_commune)
        rw == st_selectbox(rs, o[1], get_index_or_default(o[1], current_region))
        cw == st_selectbox(cs, o[2], get_index_or_default(o[2], current_commune))
        loc == update_location_cache(cached_form_data, rw.val, cw.val,
                                     current_region, current_commune)
        opts == [shown |-> TRUE, region |-> o[1], commune |-> o[2], village |-> o[3],
                 message |-> "none"]
    IN  /\ region_select' = rw
        /\ commune_select' = cw
        /\ UNCHANGED app_state
        /\ IF loc.rerun
           THEN /\ cached_form_data' = loc.draft
                /\ rerun' = TRUE
                /\ form_options' = NoForm
                /\ cache_villages' = Cached(vd)
                /\ UNCHANGED <<show_success_message, form_submitted, db,
                               cache_all_leves, cache_filter_options, cache_user_leves>>
           ELSE IF ev.kind = "submit"
           THEN handle_form_submission(vd, ev, opts)
           ELSE /\ form_options' = opts
                /\ rerun' = FALSE
                /\ cache_villages' = Cached(vd)
                /\ UNCHANGED <<cached_form_data, show_success_message,
                               form_submitted, db, cache_all_leves,
                               cache_filter_options, cache_user_leves>>

\* a script run that ends without rendering the selectors: the session drops
\* the state of the widgets that were not rendered
RunWithoutForm ==
    /\ region_select' = NoWidget
    /\ commune_select' = NoWidget
    /\ form_options' = NoForm
    /\ rerun' = FALSE

\* the roles the entry page lets through to the form
SaisieRoles == {"superviseur", "admin"}

\* show_saisie_page: one script run of the entry page
show_saisie_page(rs, cs, ev) ==
    IF ~app_state.authenticated
    THEN /\ app_state' = [app_state EXCEPT !.show_login = TRUE]
         /\ rerun' = TRUE
         /\ form_options' = NoForm
         /\ UNCHANGED <<cached_form_data, show_success_message, form_submitted,
                        region_select, commune_select, db, caches>>
    ELSE IF app_state.role \notin SaisieRoles
    THEN /\ RunWithoutForm
         /\ UNCHANGED <<app_state, cached_form_data, show_success_message,
                        form_submitted, db, caches>>
    ELSE IF DOMAIN get_cached_villages_data = {}
    THEN \* load_and_validate_villages_data returned None: the page stops
         /\ RunWithoutForm
         /\ UNCHANGED <<app_state, cached_form_data, show_success_message,
                        form_submitted, db, caches>>
    ELSE LET vd == get_cached_villages_data
         IN  CASE ev.kind = "close" ->
                   /\ show_success_message' = FALSE
                   /\ rerun' = TRUE
                   /\ cache_villages' = Cached(vd)
                   /\ form_options' = NoForm
                   /\ UNCHANGED <<app_state, cached_form_data, form_submitted,
                                  region_select, commune_select, db,
                                  cache_all_leves, cache_filter_options,
                                  cache_user_leves>>
               [] ev.kind = "new" ->
                   /\ cached_form_data' = EmptyDraft
                   /\ rerun' = TRUE
                   /\ cache_villages' = Cached(vd)
                   /\ form_options' = NoForm
                   /\ UNCHANGED <<app_state, show_success_message, form_submitted,
                                  region_select, commune_select, db,
                                  cache_all_leves, cache_filter_options,
                                  cache_user_leves>>
               [] ev.kind = "view" ->
                   /\ app_state' = [app_state EXCEPT !.current_page = "Suivi"]
                   /\ rerun' = TRUE
                   /\ cache_villages' = Cached(vd)
                   /\ form_options' = NoForm
                   /\ UNCHANGED <<cached_form_data, show_success_message,
                                  form_submitted, region_select, commune_select,
                                  db, cache_all_leves,
                                  cache_filter_options, cache_user_leves>>
               [] ev.kind = "refresh" ->
                   /\ st_cache_data_clear
                   /\ rerun' = TRUE
                   /\ form_options' = NoForm
                   /\ UNCHANGED <<app_state, cached_form_data, show_success_message,
                                  form_submitted, region_select, commune_select, db>>
               [] OTHER -> render_main_form(vd, rs, cs, ev)

(***************************************************************************)
(* The other pages (pages/dashboard.py, pages/suivi.py, pages/account.py)   *)
(***************************************************************************)
\* leves.delete_leve: the table after the unconditional DELETE
delete_leve(conn, leve_id) ==
    IF conn THEN [i \in DOMAIN leves \ {leve_id} |-> leves[i]] ELSE leves

\* delete_leve returns True whenever the DELETE statement ran
delete_leve_success(conn, leve_id) == conn

\* get_cached_all_leves / get_cached_filter_options: the entry after a read
read_all_leves == IF cache_all_leves.valid THEN cache_all_leves
                  ELSE Cached(get_all_leves)
read_filter_options == IF cache_filter_options.valid THEN cache_filter_options
                       ELSE Cached(get_filter_options)

\* show_dashboard: reads the surveys, and the filter options when there are some
show_dashboard ==
    /\ cache_all_leves' = read_all_leves
    /\ cache_filter_options' = IF DOMAIN read_all_leves.val # {}
                               THEN read_filter_options ELSE cache_filter_options
    /\ RunWithoutForm
    /\ UNCHANGED <<app_state, cached_form_data, show_success_message,
                   form_submitted, db, cache_user_leves, cache_villages>>

\* show_account_page: reads the surveys of the user through get_cached_user_leves
show_account_page ==
    IF ~app_state.authenticated
    THEN /\ app_state' = [app_state EXCEPT !.show_login = TRUE]
         /\ rerun' = TRUE
         /\ form_options' = NoForm
         /\ UNCHANGED <<cached_form_data, show_success_message, form_submitted,
                        region_select, commune_select, db, caches>>
    ELSE /\ cache_user_leves' =
               [cache_user_leves EXCEPT ![app_state.username] =
                   IF @.valid THEN @
                   ELSE Cached(get_leves_by_topographe(app_state.username))]
         /\ RunWithoutForm
         /\ UNCHANGED <<app_state, cached_form_data, show_success_message,
                        form_submitted, db, cache_all_leves, cache_filter_options,
                        cache_villages>>

\* the rows the Suivi page lists: every row for an administrateur (filter
\* "Tous"), the rows whose topographe is the user for the other roles
suivi_leves ==
    IF app_state.role = "administrateur" THEN DOMAIN leves
    ELSE {i \in DOMAIN leves : leves[i].topographe = app_state.username}

\* show_suivi_page: one script run of the Suivi page
show_suivi_page(ev) ==
    IF ~app_state.authenticated
    THEN /\ app_state' = [app_state EXCEPT !.show_login = TRUE]
         /\ rerun' = TRUE
         /\ form_options' = NoForm
         /\ UNCHANGED <<cached_form_data, show_success_message, form_submitted,
                        region_select, commune_select, db, caches>>
    ELSE /\ cache_filter_options' = read_filter_options
         /\ UNCHANGED <<app_state, cached_form_data, show_success_message,
                        form_submitted, next_id, leves_columns, cache_all_leves,
                        cache_user_leves,
                        cache_villages>>
         /\ IF /\ ev.kind = "delete_admin"
               /\ suivi_leves # {}
               /\ app_state.role = "administrateur"
            THEN \* delete_leve(leve_id), then st.rerun() on success
                 /\ leves' = delete_leve(ev.conn, ev.leve_id)
                 /\ IF delete_leve_success(ev.conn, ev.leve_id)
                    THEN /\ rerun' = TRUE
                         /\ form_options' = NoForm
                         /\ UNCHANGED <<region_select, commune_select>>
                    ELSE RunWithoutForm
            ELSE IF /\ ev.kind = "delete_own"
                    /\ suivi_leves # {}
                    /\ app_state.role # "administrateur"
            THEN \* delete_user_leve(leve_id, username) lacks the argument
                 \* user_role: the call raises TypeError before any query
                 \* and the run ends with the exception shown
                 /\ region_select' = NoWidget
                 /\ commune_select' = NoWidget
                 /\ form_options' = [NoForm EXCEPT !.message = "exception"]
                 /\ rerun' = FALSE
                 /\ UNCHANGED leves
            ELSE /\ RunWithoutForm
                 /\ UNCHANGED leves

\* the passwords stored with the rows of Users
UserPasswords ==
    [u \in DOMAIN Users |->
        CASE u = "admin" -> "admin"
          [] u = "dora"  -> "dora's own"
          [] OTHER       -> "secret"]

\* what is typed into the login form: the name of every user and of nobody,
\* and every stored password but the one of dora
LoginNames == DOMAIN Users \cup {"ghost"}
LoginPasswords == {"admin", "secret"}

\* verify_user accepting every password of a stored username
login_verify_user_any_password(conn, username, password) ==
    conn /\ username \in DOMAIN Users

\* auth.verify_user on the table Users: a row has the username and the
\* password, and the database could be reached
login_verify_user(conn, username, password) ==
    /\ conn
    /\ username \in DOMAIN Users
    /\ UserPasswords[username] = password

\* show_login_page: the submitted form logs the user in when verify_user
\* returned a row and shows an error otherwise; without a submit the page is
\* only shown
show_login_page(ev) ==
    IF ev.kind = "login" /\ ~login_verify_user(ev.conn, ev.username, ev.password)
    THEN /\ region_select' = NoWidget
         /\ commune_select' = NoWidget
         /\ form_options' = [NoForm EXCEPT !.message = "login_error"]
         /\ rerun' = FALSE
         /\ UNCHANGED <<app_state, cached_form_data, show_success_message,
                        form_submitted, db, caches>>
    ELSE IF ev.kind = "login"
    THEN /\ app_state' = [authenticated |-> TRUE, username |-> ev.username,
                          role |-> Users[ev.username],
                          current_page |-> "Mon Compte", show_login |-> FALSE]
         /\ rerun' = TRUE
         /\ form_options' = NoForm
         /\ UNCHANGED <<cached_form_data, show_success_message, form_submitted,
                        region_select, commune_select, db, caches>>
    ELSE /\ RunWithoutForm
         /\ UNCHANGED <<app_state, cached_form_data, show_success_message,
                        form_submitted, db, caches>>

\* app.main: one script run
main(rs, cs, ev) ==
    IF app_state.show_login THEN show_login_page(ev)
    ELSE CASE app_state.current_page = "Saisie des Leves" -> show_saisie_page(rs, cs, ev)
           [] app_state.current_page = "Suivi" -> show_suivi_page(ev)
           [] app_state.current_page = "Mon Compte" -> show_account_page
           [] OTHER -> show_dashboard

(***************************************************************************)
(* Concurrent calls of update_leve and delete_user_leve (leves.py)         *)
(***************************************************************************)
MaxRepoLeves == 1
Procs == {"p1", "p2"}
Actors == {"alice", "bob"}
Owners == {"alice", "bob", NULL}

\* the values add_leve is called with, and the values update_leve writes
InsertedFields == [date |-> Today, village |-> "Medina", region |-> "Dakar",
                   commune |-> "Dakar", type |-> "Champs", quantite |-> 1,
                   appareil |-> "LT60H", topographe |-> "Arona FALL"]
UpdatedFields == [date |-> Today, village |-> "Plateau", region |-> "Dakar",
                  commune |-> "Dakar", type |-> "Batiments", quantite |-> 2,
                  appareil |-> "TRIMBLE", topographe |-> "Arona FALL"]

\* pc: idle, check (called, before is_leve_owner), write (is_leve_owner
\* returned True, before the UPDATE / DELETE); in an idle process op, result
\* and conn describe its last return
NoCall == [pc |-> "idle", op |-> "none", leve_id |-> 0, username |-> "",
           user_role |-> "", result |-> "none", conn |-> TRUE]

InitRepo == call = [p \in Procs |-> NoCall]

\* is_leve_owner deciding on the username alone, whatever the role
is_leve_owner_any_role(conn, leve_id, username, user_role) ==
    /\ conn
    /\ leve_id \in DOMAIN leves
    /\ \/ user_role \in AdminRoles
       \/ leves[leve_id].superviseur = username

\* is_leve_owner: the SELECT and the decision; False without a connection
is_leve_owner(conn, leve_id, username, user_role) ==
    /\ conn
    /\ leve_id \in DOMAIN leves
    /\ \/ user_role \in AdminRoles
       \/ user_role = "superviseur" /\ leves[leve_id].superviseur = username

\* the UPDATE / DELETE statement of a call matches a row (rowcount > 0)
statement_matches(leve_id, username, user_role) ==
    /\ leve_id \in DOMAIN leves
    /\ \/ user_role \in AdminRoles
       \/ leves[leve_id].superviseur = username

\* what a call leaves behind when it returns
Return(op, conn, result) == [NoCall EXCEPT !.op = op, !.result = result, !.conn = conn]

\* update_leve or delete_user_leve is called
CallStep(p, op, leve_id, username, user_role) ==
    /\ call[p].pc = "idle"
    /\ call' = [call EXCEPT ![p] = [pc |-> "check", op |-> op, leve_id |-> leve_id,
                   username |-> username, user_role |-> user_role,
                   result |-> "none", conn |-> TRUE]]
    /\ UNCHANGED <<session, db, caches, pure, accounts>>

\* first step of the call: is_leve_owner on its own connection; the call
\* returns "not authorized" when it is False
CheckStep(p, conn) ==
    LET c == call[p]
    IN  /\ c.pc = "check"
        /\ call' = [call EXCEPT ![p] =
                       IF is_leve_owner(conn, c.leve_id, c.username, c.user_role)
                       THEN [c EXCEPT !.pc = "write"]
                       ELSE Return(c.op, conn, "unauthorized")]
        /\ UNCHANGED <<session, db, caches, pure, accounts>>

\* the UPDATE also setting superviseur, to the topographe it writes
updated_row_sets_owner(row, fields) ==
    [f \in DOMAIN row |-> IF f = "superviseur" THEN fields.topographe ELSE fields[f]]

\* the row update_leve writes: every column but superviseur
updated_row(row, fields) ==
    [f \in DOMAIN row |-> IF f = "superviseur" THEN row[f] ELSE fields[f]]

\* second step: the conditional UPDATE or DELETE on a new connection
WriteStep(p, conn) ==
    LET c == call[p]
        matches == statement_matches(c.leve_id, c.username, c.user_role)
    IN  /\ c.pc = "write"
        /\ IF ~conn
           THEN /\ call' = [call EXCEPT ![p] = Return(c.op, conn, "conn_error")]
                /\ UNCHANGED leves
           ELSE IF ~matches
           THEN /\ call' = [call EXCEPT ![p] = Return(c.op, conn, "not_found")]
                /\ UNCHANGED leves
           ELSE /\ call' = [call EXCEPT ![p] = Return(c.op, conn, "ok")]
                /\ leves' = IF c.op = "update"
                            THEN [leves EXCEPT ![c.leve_id] = updated_row(@, UpdatedFields)]
                            ELSE [i \in DOMAIN leves \ {c.leve_id} |-> leves[i]]
        /\ UNCHANGED <<session, next_id, leves_columns, caches, pure, accounts>>

\* add_leve called by some session
RepoAddLeve(superviseur, conn) ==
    LET row == add_leve_row(InsertedFields.date, InsertedFields.village,
                   InsertedFields.region, InsertedFields.commune,
                   InsertedFields.type, InsertedFields.quantite,
                   InsertedFields.appareil, InsertedFields.topographe, superviseur)
    IN  /\ next_id <= MaxRepoLeves
        /\ leves' = add_leve(conn, row)
        /\ next_id' = IF add_leve_success(conn, row) THEN next_id + 1 ELSE next_id
        /\ UNCHANGED <<leves_columns, session, caches, repo, pure, accounts>>

NextRepo ==
    \/ \E superviseur \in Owners, conn \in BOOLEAN : RepoAddLeve(superviseur, conn)
    \/ \E p \in Procs, op \in {"update", "delete"}, leve_id \in 1..(MaxRepoLeves + 1),
          username \in Actors, user_role \in Roles :
            CallStep(p, op, leve_id, username, user_role)
    \/ \E p \in Procs, conn \in BOOLEAN : CheckStep(p, conn)
    \/ \E p \in Procs, conn \in BOOLEAN : WriteStep(p, conn)

(***************************************************************************)
(* Access policy functions (app.py, auth.py, leves.py)                     *)
(***************************************************************************)
\* app.can_enter_surveys and leves.can_enter_surveys
can_enter_surveys(user_role) == user_role \in {"superviseur", "administrateur", "admin"}

\* auth.can_enter_surveys
auth_can_enter_surveys(user_role) == user_role \in {"superviseur", "administrateur"}

\* leves.can_edit_leve
can_edit_leve(current_username, user_role, leve_superviseur) ==
    IF user_role \in AdminRoles THEN TRUE
    ELSE current_username = leve_superviseur

\* auth.can_modify_survey
can_modify_survey(user_role, survey_creator, current_user) ==
    IF user_role = "administrateur" THEN TRUE
    ELSE IF user_role = "superviseur" /\ survey_creator = current_user THEN TRUE
    ELSE FALSE

PolicyRoles == Roles \cup {""}
PolicyUsers == {"alice", "bob", "tom", "", NULL}
PolicyOwners == {"alice", "bob", "", NULL}

InitPolicy ==
    policy = [user_role |-> "", username |-> "", owner |-> "", done |-> FALSE,
              can_enter |-> FALSE, auth_can_enter |-> FALSE, can_edit |-> FALSE,
              can_modify |-> FALSE]

\* a caller evaluates the policy functions on some arguments
ApplyPolicy(user_role, username, owner) ==
    /\ policy' = [user_role |-> user_role, username |-> username, owner |-> owner,
                  done |-> TRUE,
                  can_enter |-> can_enter_surveys(user_role),
                  auth_can_enter |-> auth_can_enter_surveys(user_role),
                  can_edit |-> can_edit_leve(username, user_role, owner),
                  can_modify |-> can_modify_survey(user_role, owner, username)]
    /\ UNCHANGED <<session, db, caches, repo, validation, store_op, hierarchy, accounts>>

NextPolicy ==
    \E user_role \in PolicyRoles, username \in PolicyUsers, owner \in PolicyOwners :
        ApplyPolicy(user_role, username, owner)

(***************************************************************************)
(* validate_form_data on arbitrary arguments                               *)
(***************************************************************************)
ValidationInputs ==
    [date : {Today - 1, Today, Today + 1}, village : {"", "Medina"},
     region : {"", "Dakar"}, commune : {"", "Dakar"}, type_leve : {"", "Champs"},
     quantite : {-1, 0, 1, 2}, appareil : {"", "LT60H"},
     topographe : {"", "Arona FALL"}]

InitValidation ==
    validation = [args |-> [date |-> Today, village |-> "", region |-> "",
                            commune |-> "", type_leve |-> "", quantite |-> 1,
                            appareil |-> "", topographe |-> ""],
                  done |-> FALSE, errors |-> <<>>]

\* handle_form_submission calls validate_form_data on the submitted values
ApplyValidation(a) ==
    /\ validation' = [args |-> a, done |-> TRUE,
                      errors |-> validate_form_data(a.date, a.village, a.region,
                                     a.commune, a.type_leve, a.quantite,
                                     a.appareil, a.topographe)]
    /\ UNCHANGED <<session, db, caches, repo, policy, store_op, hierarchy, accounts>>

NextValidation == \E a \in ValidationInputs : ApplyValidation(a)

(***************************************************************************)
(* Sequential calls of the repository with arbitrary arguments (leves.py)  *)
(***************************************************************************)
MaxStoreLeves == 2

\* no date given (start_date=None, end_date=None)
NoDate == 0 - 1

\* the values a caller passes to add_leve and update_leve: two valid sets and
\* a set that breaks the rules of the form
StoreArgs ==
    {InsertedFields,
     [UpdatedFields EXCEPT !.date = Today - 1, !.region = "Thies",
                           !.commune = "Mbour", !.topographe = "tom"],
     [InsertedFields EXCEPT !.date = Today + 1, !.village = "", !.type = "",
                            !.quantite = 0]}

\* who calls update_leve and delete_user_leve: the superviseurs and the
\* administrator
StoreCallers ==
    [username : Actors, user_role : {"superviseur"}]
    \cup {[username |-> "admin", user_role |-> "administrateur"]}

\* get_filtered_leves called without any criterion
NoCriteria == [start_date |-> NoDate, end_date |-> NoDate, village |-> NULL,
               region |-> NULL, commune |-> NULL, type_leve |-> NULL,
               appareil |-> NULL, topographe |-> NULL, superviseur |-> NULL]

\* the criteria, when given: the values of the first valid set
GivenCriteria == [start_date |-> Today, end_date |-> Today, village |-> "Medina",
                  region |-> "Dakar", commune |-> "Dakar", type_leve |-> "Champs",
                  appareil |-> "LT60H", topographe |-> "Arona FALL",
                  superviseur |-> "alice"]

\* no criterion, one, the start date and the end date or the region, or all
\* of them; and the empty string as village
StoreCriteria ==
    {[NoCriteria EXCEPT ![k1] = GivenCriteria[k1], ![k2] = GivenCriteria[k2]] :
        k1 \in {"start_date"}, k2 \in {"end_date", "region"}}
    \cup {[NoCriteria EXCEPT ![k] = GivenCriteria[k]] : k \in DOMAIN NoCriteria}
    \cup {NoCriteria, GivenCriteria, [NoCriteria EXCEPT !.village = ""]}

NoStoreOp == [op |-> "none", conn |-> TRUE, conn2 |-> TRUE, args |-> InsertedFields,
              criteria |-> NoCriteria, leve_id |-> 0, username |-> "",
              user_role |-> "", result |-> "none", ids |-> {}]

InitStore == store_op = NoStoreOp

\* get_filtered_leves joining the clauses with OR
get_filtered_leves_any_clause(conn, c) ==
    IF ~conn THEN {}
    ELSE {i \in DOMAIN leves :
            \/ c = NoCriteria
            \/ c.start_date # NoDate /\ leves[i].date >= c.start_date
            \/ c.end_date # NoDate /\ leves[i].date <= c.end_date
            \/ leves[i].village = c.village
            \/ leves[i].region = c.region
            \/ leves[i].commune = c.commune
            \/ leves[i].type = c.type_leve
            \/ leves[i].appareil = c.appareil
            \/ leves[i].topographe = c.topographe
            \/ leves[i].superviseur = c.superviseur}

\* get_filtered_leves: the ids of the rows the query returns. Each "if x:"
\* appends a clause to WHERE 1=1: None and "" append none. A failed
\* connection or query gives an empty frame.
get_filtered_leves(conn, c) ==
    LET q0 == DOMAIN leves
        q1 == IF c.start_date # NoDate
              THEN {i \in q0 : leves[i].date >= c.start_date} ELSE q0
        q2 == IF c.end_date # NoDate
              THEN {i \in q1 : leves[i].date <= c.end_date} ELSE q1
        q3 == IF c.village \notin {NULL, ""}
              THEN {i \in q2 : leves[i].village = c.village} ELSE q2
        q4 == IF c.region \notin {NULL, ""}
              THEN {i \in q3 : leves[i].region = c.region} ELSE q3
        q5 == IF c.commune \notin {NULL, ""}
              THEN {i \in q4 : leves[i].commune = c.commune} ELSE q4
        q6 == IF c.type_leve \notin {NULL, ""}
              THEN {i \in q5 : leves[i].type = c.type_leve} ELSE q5
        q7 == IF c.appareil \notin {NULL, ""}
              THEN {i \in q6 : leves[i].appareil = c.appareil} ELSE q6
        q8 == IF c.topographe \notin {NULL, ""}
              THEN {i \in q7 : leves[i].topographe = c.topographe} ELSE q7
        q9 == IF c.superviseur \notin {NULL, ""}
              THEN {i \in q8 : leves[i].superviseur = c.superviseur} ELSE q8
    IN  IF ~conn THEN {}
        ELSE IF c.superviseur \notin {NULL, ""} /\ "superviseur" \notin leves_columns
        THEN {}
        ELSE q9

\* update_leve answering "not found" for an id without a row
update_leve_result_names_missing(conn, conn2, leve_id, fields, username, user_role) ==
    IF conn /\ leve_id \notin DOMAIN leves THEN "not_found"
    ELSE IF ~is_leve_owner(conn, leve_id, username, user_role) THEN "unauthorized"
    ELSE IF ~conn2 THEN "conn_error"
    ELSE "ok"

\* update_leve: "ok", or the failure it reports; conn is the connection of
\* is_leve_owner, conn2 the connection of the UPDATE (asked for only after
\* is_leve_owner had one)
update_leve_result(conn, conn2, leve_id, fields, username, user_role) ==
    IF ~is_leve_owner(conn, leve_id, username, user_role) THEN "unauthorized"
    ELSE IF ~conn2 THEN "conn_error"
    ELSE IF ~statement_matches(leve_id, username, user_role) THEN "not_found"
    ELSE IF fields.village = NULL \/ fields.type = NULL \/ fields.topographe = NULL
    THEN "error"
    ELSE "ok"

\* the table after update_leve
update_leve(conn, conn2, leve_id, fields, username, user_role) ==
    IF update_leve_result(conn, conn2, leve_id, fields, username, user_role) = "ok"
    THEN [leves EXCEPT ![leve_id] = updated_row(@, fields)]
    ELSE leves

\* delete_user_leve: "ok", or the failure it reports
delete_user_leve_result(conn, conn2, leve_id, username, user_role) ==
    IF ~is_leve_owner(conn, leve_id, username, user_role) THEN "unauthorized"
    ELSE IF ~conn2 THEN "conn_error"
    ELSE IF ~statement_matches(leve_id, username, user_role) THEN "not_found"
    ELSE "ok"

\* the table after delete_user_leve
delete_user_leve(conn, conn2, leve_id, username, user_role) ==
    IF delete_user_leve_result(conn, conn2, leve_id, username, user_role) = "ok"
    THEN [i \in DOMAIN leves \ {leve_id} |-> leves[i]]
    ELSE leves

\* a caller runs add_leve
StoreAddLeve(a, superviseur, conn) ==
    LET row == add_leve_row(a.date, a.village, a.region, a.commune, a.type,
                            a.quantite, a.appareil, a.topographe, superviseur)
    IN  /\ next_id <= MaxStoreLeves
        /\ leves' = add_leve(conn, row)
        /\ next_id' = IF add_leve_success(conn, row) THEN next_id + 1 ELSE next_id
        /\ store_op' = [NoStoreOp EXCEPT !.op = "add_leve", !.conn = conn, !.args = a,
                            !.username = superviseur, !.leve_id = next_id,
                            !.result = IF add_leve_success(conn, row)
                                       THEN "ok" ELSE "failed"]
        /\ UNCHANGED <<leves_columns, session, caches, repo, policy, validation,
                       hierarchy, accounts>>

\* a caller runs update_leve
StoreUpdateLeve(leve_id, a, username, user_role, conn, conn2) ==
    /\ leves' = update_leve(conn, conn2, leve_id, a, username, user_role)
    /\ store_op' = [NoStoreOp EXCEPT !.op = "update_leve", !.conn = conn,
                        !.conn2 = conn2, !.args = a, !.leve_id = leve_id,
                        !.username = username, !.user_role = user_role,
                        !.result = update_leve_result(conn, conn2, leve_id, a,
                                                      username, user_role)]
    /\ UNCHANGED <<next_id, leves_columns, session, caches, repo, policy, validation,
                   hierarchy, accounts>>

\* a caller runs delete_user_leve
StoreDeleteUserLeve(leve_id, username, user_role, conn, conn2) ==
    /\ leves' = delete_user_leve(conn, conn2, leve_id, username, user_role)
    /\ store_op' = [NoStoreOp EXCEPT !.op = "delete_user_leve", !.conn = conn,
                        !.conn2 = conn2, !.leve_id = leve_id,
                        !.username = username, !.user_role = user_role,
                        !.result = delete_user_leve_result(conn, conn2, leve_id,
                                                           username, user_role)]
    /\ UNCHANGED <<next_id, leves_columns, session, caches, repo, policy, validation,
                   hierarchy, accounts>>

\* a caller runs delete_leve
StoreDeleteLeve(leve_id, conn) ==
    /\ leves' = delete_leve(conn, leve_id)
    /\ store_op' = [NoStoreOp EXCEPT !.op = "delete_leve", !.conn = conn,
                        !.leve_id = leve_id,
                        !.result = IF delete_leve_success(conn, leve_id)
                                   THEN "ok" ELSE "failed"]
    /\ UNCHANGED <<next_id, leves_columns, session, caches, repo, policy, validation,
                   hierarchy, accounts>>

\* a caller runs get_filtered_leves
StoreFilter(c, conn) ==
    /\ store_op' = [NoStoreOp EXCEPT !.op = "get_filtered_leves", !.conn = conn,
                        !.criteria = c, !.result = "frame",
                        !.ids = get_filtered_leves(conn, c)]
    /\ UNCHANGED <<db, session, caches, repo, policy, validation, hierarchy, accounts>>

NextStore ==
    \/ \E a \in StoreArgs, superviseur \in Actors, conn \in BOOLEAN :
          StoreAddLeve(a, superviseur, conn)
    \/ \E leve_id \in 1..MaxStoreLeves, a \in StoreArgs, who \in StoreCallers,
          conn \in BOOLEAN :
          \E conn2 \in IF conn THEN BOOLEAN ELSE {TRUE} :
             StoreUpdateLeve(leve_id, a, who.username, who.user_role, conn, conn2)
    \/ \E leve_id \in 1..MaxStoreLeves, who \in StoreCallers, conn \in BOOLEAN :
          \E conn2 \in IF conn THEN BOOLEAN ELSE {TRUE} :
             StoreDeleteUserLeve(leve_id, who.username, who.user_role, conn, conn2)
    \/ \E leve_id \in 1..MaxStoreLeves, conn \in BOOLEAN : StoreDeleteLeve(leve_id, conn)
    \/ \E c \in StoreCriteria, conn \in BOOLEAN : StoreFilter(c, conn)

(***************************************************************************)
(* Building and reading the location hierarchy (villages.py)               *)
(***************************************************************************)
MaxRows == 3

\* the cells of the sheet: text, text with surrounding blanks, and a missing
\* village cell (NaN)
RegionCells == {"Dakar", "Thies"}
CommuneCells == {"Mbour", " Mbour "}
VillageCells == {"Medina", " Medina ", "Plateau", " nan", NULL}
SheetRows == [region : RegionCells, commune : CommuneCells, village : VillageCells]

\* the sheets: one to MaxRows rows
Sheets == UNION {[1..n -> SheetRows] : n \in 1..MaxRows}

\* str(cell).strip()
strip(cell) ==
    CASE cell = " Mbour "  -> "Mbour"
      [] cell = " Medina " -> "Medina"
      [] cell = " nan"     -> "nan"
      [] OTHER             -> cell

\* df.dropna(subset=required_columns)
dropna(rows) ==
    SelectSeq(rows, LAMBDA row : row.region # NULL /\ row.commune # NULL
                                 /\ row.village # NULL)

\* position of a name in the ascending order
Pos(n) == CHOOSE i \in 1..Len(NameOrder) : NameOrder[i] = n

\* list.sort()
RECURSIVE list_sort(_)
list_sort(s) ==
    IF s = <<>> THEN <<>>
    ELSE LET m == CHOOSE i \in 1..Len(s) : \A j \in 1..Len(s) : Pos(s[i]) <= Pos(s[j])
         IN  <<s[m]>> \o list_sort(SubSeq(s, 1, m - 1) \o SubSeq(s, m + 1, Len(s)))

\* one turn of the loop over df_clean: the row is skipped, or its village is
\* appended to the list of its (region, commune) unless already there
process_row(data, row) ==
    LET region == strip(row.region)
        commune == strip(row.commune)
        village == strip(row.village)
        d1 == IF region \in DOMAIN data THEN data ELSE (region :> <<>>) @@ data
        d2 == IF commune \in DOMAIN d1[region] THEN d1
              ELSE [d1 EXCEPT ![region] = (commune :> <<>>) @@ @]
    IN  IF region = "" \/ commune = "" \/ village = ""
           \/ region = "nan" \/ commune = "nan" \/ village = "nan"
        THEN data
        ELSE IF village \in Range(d2[region][commune]) THEN d2
        ELSE [d2 EXCEPT ![region][commune] = Append(@, village)]

RECURSIVE process_rows(_, _)
process_rows(data, rows) ==
    IF rows = <<>> THEN data
    ELSE process_rows(process_row(data, Head(rows)), Tail(rows))

\* load_villages_data_cached on a sheet with these rows: {} when nothing is
\* left after dropna, else the mapping with every list sorted
load_villages_data_cached(rows) ==
    LET data == process_rows(<<>>, dropna(rows))
    IN  [region \in DOMAIN data |->
            [commune \in DOMAIN data[region] |-> list_sort(data[region][commune])]]

\* get_villages_list over the loaded mapping
get_villages_list(data, region, commune) ==
    IF region = "" \/ commune = "" THEN <<"">>
    ELSE IF region \in DOMAIN data /\ commune \in DOMAIN data[region]
    THEN <<"">> \o data[region][commune]
    ELSE <<"">>

NoHierarchy == [built |-> FALSE, rows |-> <<>>, data |-> <<>>, read |-> FALSE,
                region |-> "", commune |-> "", villages |-> <<>>]

InitHierarchy == hierarchy = NoHierarchy

\* the sheet is loaded
BuildHierarchy(rows) ==
    /\ ~hierarchy.built
    /\ hierarchy' = [NoHierarchy EXCEPT !.built = TRUE, !.rows = rows,
                        !.data = load_villages_data_cached(rows)]
    /\ UNCHANGED <<session, db, caches, repo, policy, validation, store_op, accounts>>

\* the village list of a pair is read
ReadVillages(region, commune) ==
    /\ hierarchy.built
    /\ hierarchy' = [hierarchy EXCEPT !.read = TRUE, !.region = region,
                        !.commune = commune,
                        !.villages = get_villages_list(hierarchy.data, region, commune)]
    /\ UNCHANGED <<session, db, caches, repo, policy, validation, store_op, accounts>>

NextHierarchy ==
    \/ \E rows \in IF hierarchy.built THEN {} ELSE Sheets : BuildHierarchy(rows)
    \/ \E region \in {"Dakar", "Thies", ""}, commune \in {"Mbour", "Dakar"} :
          ReadVillages(region, commune)

(***************************************************************************)
(* User accounts (db.init_db, auth.py) and the administration pages        *)
(* (pages/admin.py, pages/account.py, the sidebar of app.py)               *)
(***************************************************************************)
MaxUsers == 3
UserNames == {"admin", "bob"}
UserEmails == {"", "bob@topo.sn"}
Passwords == {"admin", "secret"}

\* the roles the form "Ajouter un nouvel utilisateur" offers
AdminPageRoles == {"topographe", "administrateur"}

NoAccountOp == [op |-> "none", via |-> "none", user_id |-> 0, result |-> "none"]

\* initialize_session_state; main_nav and admin_nav are the sidebar radios
GuestAccount == [authenticated |-> FALSE, username |-> NULL, role |-> NULL,
                 current_page |-> "Dashboard", main_nav |-> "Dashboard",
                 admin_nav |-> "Aucune"]

\* the row init_db seeds
SeedAdmin == [username |-> "admin", password |-> "admin", email |-> NULL,
              role |-> "administrateur"]

\* the users table after the init_db of the first script run, and a session
\* that is not logged in
InitAccounts ==
    /\ users = (1 :> SeedAdmin)
    /\ next_user_id = 2
    /\ acct = GuestAccount
    /\ account_op = NoAccountOp

\* SELECT * FROM users WHERE username='admin' finds a row
has_admin == \E i \in DOMAIN users : users[i].username = "admin"

\* init_db: the users table after CREATE TABLE IF NOT EXISTS and the seed
init_db(conn) ==
    IF conn /\ ~has_admin
    THEN (next_user_id :> SeedAdmin) @@ users
    ELSE users

\* add_user: "ok", or the failure it reports. username is UNIQUE NOT NULL,
\* email is UNIQUE (NULL excepted), role is NOT NULL
add_user_result(conn, username, email, role) ==
    IF ~conn THEN "conn_error"
    ELSE IF \E i \in DOMAIN users :
                users[i].username = username \/ users[i].email = email
    THEN "integrity"
    ELSE "ok"

\* the users table after add_user
add_user(conn, username, password, email, role) ==
    IF add_user_result(conn, username, email, role) = "ok"
    THEN (next_user_id :> [username |-> username, password |-> password,
                           email |-> email, role |-> role]) @@ users
    ELSE users

\* delete_user deleting whatever row has the id
delete_user_result_any_row(conn, user_id) ==
    IF ~conn THEN "conn_error"
    ELSE IF user_id \notin DOMAIN users THEN "not_found"
    ELSE "ok"

\* delete_user: "ok", or the failure it reports
delete_user_result(conn, user_id) ==
    IF ~conn THEN "conn_error"
    ELSE IF user_id \notin DOMAIN users THEN "not_found"
    ELSE IF users[user_id].username = "admin" THEN "refused"
    ELSE "ok"

\* the users table after delete_user
delete_user(conn, user_id) ==
    IF delete_user_result(conn, user_id) = "ok"
    THEN [i \in DOMAIN users \ {user_id} |-> users[i]]
    ELSE users

\* change_password: True whenever the UPDATE ran, whatever it matched
change_password_result(conn, username) ==
    IF ~conn THEN "conn_error" ELSE "ok"

\* the users table after change_password
change_password(conn, username, new_password) ==
    IF change_password_result(conn, username) = "ok"
    THEN [i \in DOMAIN users |->
             IF users[i].username = username
             THEN [users[i] EXCEPT !.password = new_password] ELSE users[i]]
    ELSE users

\* verify_user: the ids of the rows with the username and the password
verify_user(conn, username, password) ==
    IF conn
    THEN {i \in DOMAIN users : users[i].username = username
                               /\ users[i].password = password}
    ELSE {}

\* the sidebar shows the radio "Administration" to every administrator role
admin_nav_shown_any_admin(user_role) == user_role \in AdminRoles

\* show_navigation_sidebar: the radio "Administration" is shown
admin_nav_shown(user_role) == user_role = "administrateur"

\* show_navigation_sidebar: the page the two radios select
sidebar_page(user_role, main_nav, admin_nav) ==
    IF admin_nav_shown(user_role) /\ admin_nav # "Aucune" THEN admin_nav
    ELSE main_nav

\* show_admin_users_page: one script run with a submitted form
show_admin_users_page(kind, user_id, username, email, role, conn) ==
    IF ~acct.authenticated \/ acct.role # "administrateur"
    THEN UNCHANGED <<users, next_user_id, account_op>>
    ELSE IF kind = "delete_user"
    THEN /\ users' = delete_user(conn, user_id)
         /\ account_op' = [op |-> "delete_user", via |-> "admin_page", user_id |-> user_id,
                           result |-> delete_user_result(conn, user_id)]
         /\ UNCHANGED next_user_id
    ELSE /\ users' = add_user(conn, username, "secret", email, role)
         /\ next_user_id' = IF conn THEN next_user_id + 1
                            ELSE next_user_id
         /\ account_op' = [op |-> "add_user", via |-> "admin_page", user_id |-> next_user_id,
                           result |-> add_user_result(conn, username, email, role)]

\* main calls init_db at the start of every script run
InitDb(conn) ==
    /\ next_user_id <= MaxUsers \/ has_admin \/ ~conn
    /\ users' = init_db(conn)
    /\ next_user_id' = IF conn /\ ~has_admin THEN next_user_id + 1 ELSE next_user_id
    /\ account_op' = [op |-> "init_db", via |-> "call", user_id |-> 0,
                      result |-> IF conn THEN "ok" ELSE "conn_error"]
    /\ UNCHANGED <<acct, session, db, caches, repo, pure>>

\* a caller runs add_user
AddUser(username, password, email, role, conn) ==
    /\ next_user_id <= MaxUsers \/ ~conn
    /\ users' = add_user(conn, username, password, email, role)
    /\ next_user_id' = IF conn THEN next_user_id + 1 ELSE next_user_id
    /\ account_op' = [op |-> "add_user", via |-> "call", user_id |-> next_user_id,
                      result |-> add_user_result(conn, username, email, role)]
    /\ UNCHANGED <<acct, session, db, caches, repo, pure>>

\* a caller runs delete_user
DeleteUser(user_id, conn) ==
    /\ users' = delete_user(conn, user_id)
    /\ account_op' = [op |-> "delete_user", via |-> "call", user_id |-> user_id,
                      result |-> delete_user_result(conn, user_id)]
    /\ UNCHANGED <<next_user_id, acct, session, db, caches, repo, pure>>

\* a caller runs change_password
ChangePassword(username, new_password, conn) ==
    /\ users' = change_password(conn, username, new_password)
    /\ account_op' = [op |-> "change_password", via |-> "call", user_id |-> 0,
                      result |-> change_password_result(conn, username)]
    /\ UNCHANGED <<next_user_id, acct, session, db, caches, repo, pure>>

\* show_login_page: the login form is submitted
AccountLogin(username, password) ==
    /\ ~acct.authenticated
    /\ \E i \in verify_user(TRUE, username, password) :
          acct' = [authenticated |-> TRUE, username |-> username,
                   role |-> users[i].role, current_page |-> "Mon Compte",
                   main_nav |-> "Mon Compte", admin_nav |-> "Aucune"]
    /\ UNCHANGED <<users, next_user_id, account_op,
                   session, db, caches, repo, pure>>

\* sidebar button "Deconnexion"
AccountLogout ==
    /\ acct.authenticated
    /\ acct' = GuestAccount
    /\ UNCHANGED <<users, next_user_id, account_op,
                   session, db, caches, repo, pure>>

\* the user picks a page in the radio "Pages"
SelectMainPage(page) ==
    /\ acct.authenticated
    /\ page # acct.main_nav
    /\ acct' = [acct EXCEPT !.main_nav = page,
                            !.current_page = sidebar_page(acct.role, page, acct.admin_nav)]
    /\ UNCHANGED <<users, next_user_id, account_op,
                   session, db, caches, repo, pure>>

\* the user picks an entry of the radio "Administration"
SelectAdminPage(choice) ==
    /\ acct.authenticated
    /\ admin_nav_shown(acct.role)
    /\ choice # acct.admin_nav
    /\ acct' = [acct EXCEPT !.admin_nav = choice,
                            !.current_page = sidebar_page(acct.role, acct.main_nav, choice)]
    /\ UNCHANGED <<users, next_user_id, account_op,
                   session, db, caches, repo, pure>>

\* the form "Supprimer un utilisateur" is submitted
SubmitDeleteUser(user_id, conn) ==
    /\ acct.current_page = "Admin Users"
    /\ users # <<>>
    /\ show_admin_users_page("delete_user", user_id, "", "", "", conn)
    /\ UNCHANGED <<acct, session, db, caches, repo, pure>>

\* the form "Ajouter un nouvel utilisateur" is submitted with a username and
\* a password
SubmitAddUser(username, email, role, conn) ==
    /\ acct.current_page = "Admin Users"
    /\ next_user_id <= MaxUsers \/ ~conn
    /\ show_admin_users_page("add_user", 0, username, email, role, conn)
    /\ UNCHANGED <<acct, session, db, caches, repo, pure>>

\* show_account_page: the form "Changer de mot de passe" is submitted with the
\* right old password
SubmitChangePassword(old_password, new_password, conn) ==
    /\ acct.authenticated /\ acct.current_page = "Mon Compte"
    /\ verify_user(TRUE, acct.username, old_password) # {}
    /\ users' = change_password(conn, acct.username, new_password)
    /\ account_op' = [op |-> "change_password", via |-> "account_page", user_id |-> 0,
                      result |-> change_password_result(conn, acct.username)]
    /\ UNCHANGED <<next_user_id, acct, session, db, caches, repo, pure>>

NextAccounts ==
    \/ \E conn \in BOOLEAN : InitDb(conn)
    \/ \E username \in UserNames, email \in UserEmails, role \in Roles,
          conn \in BOOLEAN : AddUser(username, "secret", email, role, conn)
    \/ \E user_id \in 1..MaxUsers, conn \in BOOLEAN : DeleteUser(user_id, conn)
    \/ \E username \in UserNames, pw \in Passwords, conn \in BOOLEAN :
          ChangePassword(username, pw, conn)
    \/ \E username \in UserNames, pw \in Passwords : AccountLogin(username, pw)
    \/ AccountLogout
    \/ \E page \in {"Dashboard", "Mon Compte"} : SelectMainPage(page)
    \/ \E choice \in {"Aucune", "Admin Users", "Admin Data"} : SelectAdminPage(choice)
    \/ \E user_id \in 1..MaxUsers, conn \in BOOLEAN : SubmitDeleteUser(user_id, conn)
    \/ \E username \in UserNames, email \in UserEmails, role \in AdminPageRoles,
          conn \in BOOLEAN : SubmitAddUser(username, email, role, conn)
    \/ \E old \in Passwords, new \in Passwords, conn \in BOOLEAN :
          SubmitChangePassword(old, new, conn)

\* the usernames of callers that register accounts
RegistrationNames == UserNames \cup {"tom"}

\* accounts are created with the role add_user defaults to, and deleted
NextRegistration ==
    \/ \E username \in RegistrationNames, email \in UserEmails, conn \in BOOLEAN :
          AddUser(username, "secret", email, "topographe", conn)
    \/ \E user_id \in 1..MaxUsers, conn \in BOOLEAN : DeleteUser(user_id, conn)

(***************************************************************************)
(* Steps of the application: a user event and the script run it triggers   *)
(***************************************************************************)
\* a new session after init_db and initialize_session_state of its first
\* script run: the hierarchy is loaded through get_cached_villages_data, the
\* page is not yet rendered; the table leves is empty, and it is the table
\* init_db created or a table that existed with the superviseur column
InitApp(sources) ==
    /\ app_state = GuestState
    /\ cached_form_data = EmptyDraft
    /\ show_success_message = FALSE
    /\ form_submitted = FALSE
    /\ region_select = NoWidget
    /\ commune_select = NoWidget
    /\ form_options = NoForm
    /\ rerun = TRUE
    /\ leves = <<>>
    /\ next_id = 1
    /\ leves_columns \in {InitDbColumns, DeployedColumns}
    /\ cache_all_leves = NoCache
    /\ cache_filter_options = NoCache
    /\ cache_user_leves = [u \in DOMAIN Users |-> NoCache]
    /\ cache_villages \in {Cached(load_villages_data(s)) : s \in sources}

Init ==
    /\ InitApp({"ok"})
    /\ InitRepo
    /\ InitPolicy
    /\ InitValidation
    /\ InitAccounts
    /\ InitStore
    /\ InitHierarchy

\* a new session, whatever the state of the file Villages.xlsx
InitSource ==
    /\ InitApp(VillagesSources)
    /\ InitRepo
    /\ InitPolicy
    /\ InitValidation
    /\ InitAccounts
    /\ InitStore
    /\ InitHierarchy

\* the script runs again after st.rerun(), or for the first time
Rerun ==
    /\ UNCHANGED <<repo, pure, accounts>>
    /\ rerun
    /\ main(region_select, commune_select, NoEvent)

\* sidebar button "Se connecter"
ClickLogin ==
    /\ UNCHANGED <<repo, pure, accounts>>
    /\ ~rerun /\ ~app_state.authenticated /\ ~app_state.show_login
    /\ app_state' = [app_state EXCEPT !.show_login = TRUE]
    /\ rerun' = TRUE
    /\ form_options' = NoForm
    /\ UNCHANGED <<cached_form_data, show_success_message, form_submitted,
                   region_select, commune_select, db, caches>>

\* the login form submitted with a username and a password
LoginSubmit(u, pw, conn) ==
    /\ UNCHANGED <<repo, pure, accounts>>
    /\ ~rerun /\ app_state.show_login
    /\ main(region_select, commune_select,
            [NoEvent EXCEPT !.kind = "login", !.username = u, !.password = pw,
                            !.conn = conn])

\* sidebar button "Deconnexion": the session state is cleared and initialised
Logout ==
    /\ UNCHANGED <<repo, pure, accounts>>
    /\ ~rerun /\ app_state.authenticated /\ ~app_state.show_login
    /\ cache_user_leves' = [u \in DOMAIN cache_user_leves |-> NoCache]
    /\ app_state' = GuestState
    /\ cached_form_data' = EmptyDraft
    /\ show_success_message' = FALSE
    /\ form_submitted' = FALSE
    /\ region_select' = NoWidget
    /\ commune_select' = NoWidget
    /\ form_options' = NoForm
    /\ cache_villages' = Cached(get_cached_villages_data)
    /\ rerun' = TRUE
    /\ UNCHANGED <<db, cache_all_leves, cache_filter_options>>

\* sidebar radio: another page is chosen
Navigate(page) ==
    /\ UNCHANGED <<repo, pure, accounts>>
    /\ ~rerun /\ app_state.authenticated /\ ~app_state.show_login
    /\ page # app_state.current_page
    /\ app_state' = [app_state EXCEPT !.current_page = page]
    /\ rerun' = TRUE
    /\ form_options' = NoForm
    /\ UNCHANGED <<cached_form_data, show_success_message, form_submitted,
                   region_select, commune_select, db, caches>>

\* the entry form is on the page and waits for the user
FormShown ==
    /\ ~rerun /\ ~app_state.show_login
    /\ app_state.current_page = "Saisie des Leves"
    /\ form_options.shown

\* the user picks another region in the selector
SelectRegion(r) ==
    /\ UNCHANGED <<repo, pure, accounts>>
    /\ FormShown
    /\ r \in Range(form_options.region) /\ r # region_select.val
    /\ main([region_select EXCEPT !.val = r], commune_select, NoEvent)

\* the user picks another commune in the selector
SelectCommune(c) ==
    /\ UNCHANGED <<repo, pure, accounts>>
    /\ FormShown
    /\ c \in Range(form_options.commune) /\ c # commune_select.val
    /\ main(region_select, [commune_select EXCEPT !.val = c], NoEvent)

\* the user fills the form and presses "Enregistrer le leve"
SubmitForm(ev) ==
    /\ UNCHANGED <<repo, pure, accounts>>
    /\ FormShown
    /\ ev.village \in Range(form_options.village)
    /\ \/ next_id <= MaxLeves
       \/ ~ev.conn
       \/ validate_form_data(ev.date, ev.village, cached_form_data.region,
              cached_form_data.commune, ev.type_leve, ev.quantite, ev.appareil,
              ev.topographe) # <<>>
    /\ main(region_select, commune_select, ev)

SubmitEvents ==
    {[NoEvent EXCEPT !.kind = "submit", !.date = d, !.village = v, !.type_leve = t,
                     !.quantite = q, !.appareil = a, !.topographe = tp, !.conn = c] :
        d \in FormDates, v \in Range(NameOrder) \cup {""}, t \in FormTypes,
        q \in FormQuantites, a \in FormAppareils, tp \in FormTopographes,
        c \in BOOLEAN}

\* buttons "Nouveau leve", "Voir les leves", "Actualiser donnees", "Fermer"
ClickButton(kind) ==
    /\ UNCHANGED <<repo, pure, accounts>>
    /\ FormShown
    /\ kind = "close" => show_success_message
    /\ main(region_select, commune_select, [NoEvent EXCEPT !.kind = kind])

\* Suivi page: the delete form of the user's own surveys is submitted
DeleteOwnLeve(leve_id) ==
    /\ UNCHANGED <<repo, pure, accounts>>
    /\ ~rerun /\ ~app_state.show_login /\ app_state.authenticated
    /\ app_state.current_page = "Suivi"
    /\ app_state.role # "administrateur"
    /\ suivi_leves # {}
    /\ main(region_select, commune_select,
            [NoEvent EXCEPT !.kind = "delete_own", !.leve_id = leve_id])

\* Suivi page: the administrator's delete form is submitted
DeleteLeveAdmin(leve_id, conn) ==
    /\ UNCHANGED <<repo, pure, accounts>>
    /\ ~rerun /\ ~app_state.show_login /\ app_state.authenticated
    /\ app_state.current_page = "Suivi"
    /\ app_state.role = "administrateur"
    /\ suivi_leves # {}
    /\ main(region_select, commune_select,
            [NoEvent EXCEPT !.kind = "delete_admin", !.leve_id = leve_id,
                            !.conn = conn])

\* set_form_data(record) in a script run on the entry page that ends in
\* st.rerun(): region, commune and village of a stored survey are written
\* into the draft; rendered says whether that run had rendered the selectors
SeedDraft(leve_id, rendered) ==
    /\ UNCHANGED <<repo, pure, accounts>>
    /\ ~rerun /\ ~app_state.show_login /\ app_state.authenticated
    /\ app_state.current_page = "Saisie des Leves"
    /\ app_state.role \in SaisieRoles
    /\ leve_id \in DOMAIN leves
    /\ cached_form_data' = [cached_form_data EXCEPT
                               !.region = leves[leve_id].region,
                               !.commune = leves[leve_id].commune,
                               !.village = leves[leve_id].village]
    /\ region_select' = IF rendered THEN region_select ELSE NoWidget
    /\ commune_select' = IF rendered THEN commune_select ELSE NoWidget
    /\ form_options' = [NoForm EXCEPT !.message = "seeded"]
    /\ rerun' = TRUE
    /\ UNCHANGED <<app_state, show_success_message, form_submitted, db, caches>>

Next ==
    \/ Rerun
    \/ ClickLogin
    \/ \E u \in LoginNames, pw \in LoginPasswords, conn \in BOOLEAN :
          LoginSubmit(u, pw, conn)
    \/ Logout
    \/ \E page \in Pages : Navigate(page)
    \/ \E r \in DOMAIN villages_data \cup {""} : SelectRegion(r)
    \/ \E c \in Range(NameOrder) \cup {""} : SelectCommune(c)
    \/ \E ev \in SubmitEvents : SubmitForm(ev)
    \/ \E kind \in {"close", "new", "view", "refresh"} : ClickButton(kind)
    \/ \E leve_id \in 1..MaxLeves : DeleteOwnLeve(leve_id)
    \/ \E leve_id \in 1..MaxLeves, conn \in BOOLEAN : DeleteLeveAdmin(leve_id, conn)

\* one login session on the pages, with drafts seeded from stored surveys
NextSeed ==
    \/ ClickLogin
    \/ Rerun
    \/ \E u \in LoginNames, pw \in LoginPasswords, conn \in BOOLEAN :
          LoginSubmit(u, pw, conn)
    \/ \E page \in Pages : Navigate(page)
    \/ \E r \in DOMAIN villages_data \cup {""} : SelectRegion(r)
    \/ \E c \in Range(NameOrder) \cup {""} : SelectCommune(c)
    \/ \E ev \in SubmitEvents : SubmitForm(ev)
    \/ \E kind \in {"close", "new", "view", "refresh"} : ClickButton(kind)
    \/ \E leve_id \in 1..MaxLeves, rendered \in BOOLEAN : SeedDraft(leve_id, rendered)

Spec == Init /\ [][Next]_vars

SpecSeed == Init /\ [][NextSeed]_vars

SpecSource == InitSource /\ [][Next]_vars

SpecRepo == Init /\ [][NextRepo]_vars

SpecPolicy == Init /\ [][NextPolicy]_vars

SpecValidation == Init /\ [][NextValidation]_vars

SpecAccounts == Init /\ [][NextAccounts]_vars

SpecStore == Init /\ [][NextStore]_vars

SpecRegistration == Init /\ [][NextRegistration]_vars

SpecHierarchy == Init /\ [][NextHierarchy]_vars

(***************************************************************************)
(* Properties of the entry form's location cascade                         *)
(***************************************************************************)
\* C1: a step that changes the draft's region leaves commune and village
\* empty, and while the form is shown the selection of a region other than the
\* draft's region stores that region and clears commune and village in the
\* same step.
C1_RegionChangeClears ==
    [][/\ cached_form_data'.region # cached_form_data.region
          => cached_form_data'.commune = "" /\ cached_form_data'.village = ""
       /\ (FormShown /\ region_select'.set
              /\ region_select'.val # cached_form_data.region)
          => cached_form_data' = [cached_form_data EXCEPT
                                     !.region = region_select'.val,
                                     !.commune = "", !.village = ""]]_vars

\* a region was selected over a draft that held a commune and a village of
\* another region: the commune selector still shows the old commune
C1_Witness ==
    /\ rerun
    /\ cached_form_data.region = "Dakar"
    /\ cached_form_data.commune = "" /\ cached_form_data.village = ""
    /\ cached_form_data.topographe # ""
    /\ region_select.val = "Dakar"
    /\ commune_select.val = "Mbour" /\ commune_select.opts = <<"", "Mbour">>

\* C2: while the form is shown the selection of a commune other than the
\* draft's commune stores that commune, clears the village and leaves every
\* other field, the region included, as it was; and any step that gives the
\* draft another non-empty commune keeps the region and clears the village.
C2_CommuneChangeClearsVillage ==
    [][/\ (FormShown /\ commune_select'.set /\ region_select' = region_select
              /\ commune_select'.val # cached_form_data.commune)
          => cached_form_data' = [cached_form_data EXCEPT
                                     !.commune = commune_select'.val,
                                     !.village = ""]
       /\ (cached_form_data'.commune # cached_form_data.commune
              /\ cached_form_data'.commune # "")
          => /\ cached_form_data'.region = cached_form_data.region
             /\ cached_form_data'.village = ""]_vars

\* another commune of the same region was selected over a draft that held a
\* village
C2_Witness ==
    /\ rerun
    /\ cached_form_data.region = "Dakar"
    /\ cached_form_data.commune = "Mbour" /\ cached_form_data.village = ""
    /\ cached_form_data.topographe # ""
    /\ commune_select.val = "Mbour" /\ commune_select.idx = 1

\* the communes of a region and the villages of a commune in the hierarchy
CommunesOf(region) ==
    IF region \in DOMAIN villages_data THEN DOMAIN villages_data[region] ELSE {}
VillagesOf(region, commune) ==
    IF commune \in CommunesOf(region)
    THEN Range(villages_data[region][commune]) ELSE {}

\* s is the sentinel "" followed by the members of S, each once
SentinelThen(s, S) ==
    /\ Len(s) = Cardinality(S) + 1
    /\ s[1] = ""
    /\ {s[i] : i \in 2..Len(s)} = S

\* C3: the commune and village options of a shown form are the sentinel plus
\* the hierarchy's entries under the draft's region and commune, and the
\* draft's commune and village are empty or entries of the hierarchy under the
\* draft's ancestors.
C3_OptionsFollowDraft ==
    /\ form_options.shown =>
          /\ SentinelThen(form_options.commune, CommunesOf(cached_form_data.region))
          /\ SentinelThen(form_options.village,
                 VillagesOf(cached_form_data.region, cached_form_data.commune))
    /\ \/ cached_form_data.commune = ""
       \/ cached_form_data.commune \in CommunesOf(cached_form_data.region)
    /\ \/ cached_form_data.village = ""
       \/ cached_form_data.village \in
              VillagesOf(cached_form_data.region, cached_form_data.commune)

\* the form is shown over a draft with a commune that exists in two regions
\* and a village kept from a submission that was not stored
C3_Witness ==
    /\ form_options.shown
    /\ cached_form_data.region = "Thies" /\ cached_form_data.commune = "Mbour"
    /\ cached_form_data.village = "Mbour 1"
    /\ form_options.village = <<"", "Mbour 1">>

(***************************************************************************)
(* Properties of the access policy                                         *)
(***************************************************************************)
\* C4: every entry-permission check agrees on the roles superviseur,
\* administrateur and admin: once the entry page has been rendered for a
\* logged-in session, the form is shown exactly when the role is one of the
\* three, and both can_enter_surveys functions say the same.
C4_EntryChecksAgree ==
    (/\ app_state.authenticated /\ ~app_state.show_login /\ ~rerun
     /\ app_state.current_page = "Saisie des Leves")
    => /\ form_options.shown =
              (app_state.role \in {"superviseur", "administrateur", "admin"})
       /\ can_enter_surveys(app_state.role) = form_options.shown
       /\ auth_can_enter_surveys(app_state.role) = form_options.shown

\* C5: the edit / delete decision is fail-closed: for a role that is not an
\* administrator role it is false when the owner is null or empty, and for a
\* role other than superviseur it is false even when the username is the owner.
C5_EditDecisionFailClosed ==
    (policy.done /\ policy.user_role \notin {"administrateur", "admin"})
    => /\ policy.owner \in {NULL, ""} => ~policy.can_edit
       /\ policy.user_role # "superviseur" => ~policy.can_edit

(***************************************************************************)
(* Properties of update_leve and delete_user_leve                          *)
(***************************************************************************)
\* process p is inside a call and takes a step
Steps(p) == call[p].pc \in {"check", "write"} /\ call'[p] # call[p]

\* C6: in every step of a call whose actor is neither an administrator role
\* nor the owner of a stored record, that record stays in the table unchanged,
\* whatever the other process is doing.
C6_NonOwnerNeverWrites ==
    [][\A p \in Procs : \A i \in DOMAIN leves :
          (/\ Steps(p)
           /\ call[p].user_role \notin {"administrateur", "admin"}
           /\ call[p].username # leves[i].superviseur)
          => i \in DOMAIN leves' /\ leves'[i] = leves[i]]_vars

\* a superviseur who does not own record 1 is about to be checked for a delete
\* of it while an update of record 1 by its owner is between check and write
C6_Witness ==
    \E p, q \in Procs :
        /\ p # q
        /\ 1 \in DOMAIN leves
        /\ call[p].pc = "check" /\ call[p].op = "delete" /\ call[p].leve_id = 1
        /\ call[p].user_role = "superviseur"
        /\ call[p].username # leves[1].superviseur
        /\ call[q].pc = "write" /\ call[q].op = "update" /\ call[q].leve_id = 1
        /\ call[q].user_role = "superviseur"

\* C7: an update that returns for an id without a stored row returns not
\* found, an update refused for a stored row returns unauthorized, and an
\* update whose statement matches no row after a passed check returns not
\* found and changes no record (each with the connection obtained).
C7_UpdateNotFound ==
    [][\A p \in Procs :
          (/\ Steps(p) /\ call[p].op = "update"
           /\ call'[p].pc = "idle" /\ call'[p].conn)
          => /\ call[p].leve_id \notin DOMAIN leves
                => call'[p].result = "not_found" /\ leves' = leves
             /\ (call[p].pc = "check" /\ call[p].leve_id \in DOMAIN leves)
                => call'[p].result = "unauthorized"]_vars

\* C8: a step of delete_user_leve removes the record iff the role is an
\* administrator role, or superviseur with the actor the stored superviseur
\* (and the connection is obtained); any other return is a failure and leaves
\* the table as it was; no other record is touched.
C8_DeleteIffAuthorized ==
    [][\A p \in Procs :
          (Steps(p) /\ call[p].op = "delete")
          => LET c == call[p]
                 authorized ==
                     /\ c.leve_id \in DOMAIN leves
                     /\ \/ c.user_role \in {"administrateur", "admin"}
                        \/ /\ c.user_role = "superviseur"
                           /\ c.username = leves[c.leve_id].superviseur
                 removed == leves' = [i \in DOMAIN leves \ {c.leve_id} |-> leves[i]]
                 no_conn == call'[p].pc = "idle" /\ ~call'[p].conn
             IN  /\ (c.pc = "check" /\ authorized /\ ~no_conn)
                    => call'[p].pc = "write"
                 /\ (c.pc = "write" /\ authorized /\ ~no_conn)
                    => removed /\ call'[p].result = "ok"
                 /\ c.pc = "check" => leves' = leves
                 /\ (~authorized \/ no_conn)
                    => /\ leves' = leves
                       /\ call'[p].pc = "idle"
                       /\ call'[p].result \in {"unauthorized", "not_found", "conn_error"}]_vars

\* a delete removed the only record while the other process was refused
C8_Witness ==
    \E p, q \in Procs :
        /\ call[p].pc = "idle" /\ call[p].op = "delete" /\ call[p].result = "ok"
        /\ call[q].pc = "idle" /\ call[q].op = "delete"
        /\ call[q].result = "unauthorized" /\ call[q].conn
        /\ next_id = 2 /\ DOMAIN leves = {}

(***************************************************************************)
(* Properties of the read caches and of validate_form_data                 *)
(***************************************************************************)
\* C9: a step that changes the table leves leaves no survey cache entry
\* valid: all surveys, filter options, and every user's surveys.
C9_MutationInvalidatesCaches ==
    [][leves' # leves
          => /\ ~cache_all_leves'.valid
             /\ ~cache_filter_options'.valid
             /\ \A u \in DOMAIN cache_user_leves' : ~cache_user_leves'[u].valid]_vars

\* the rules of the entry form, by the name of the entry each one reports
ViolatedRules(a) ==
    {r \in {"village", "region", "commune", "topographe", "appareil", "type",
            "quantite", "date"} :
        \/ r = "village" /\ a.village = ""
        \/ r = "region" /\ a.region = ""
        \/ r = "commune" /\ a.commune = ""
        \/ r = "topographe" /\ a.topographe = ""
        \/ r = "appareil" /\ a.appareil = ""
        \/ r = "type" /\ a.type_leve = ""
        \/ r = "quantite" /\ ~(a.quantite > 0)
        \/ r = "date" /\ a.date > Today}

\* C10: the error list of validate_form_data holds exactly one entry for each
\* violated rule and nothing else, so it is empty exactly when no rule is
\* violated.
C10_OneEntryPerViolatedRule ==
    validation.done
    => LET e == validation.errors
           violated == ViolatedRules(validation.args)
       IN  /\ Len(e) = Cardinality(violated)
           /\ {e[i] : i \in 1..Len(e)} = violated
           /\ (e = <<>>) = (violated = {})

\* quantite = 0, an empty village and a future date: three entries
C10_Witness ==
    /\ validation.done
    /\ validation.args.quantite = 0 /\ validation.args.village = ""
    /\ validation.args.date > Today
    /\ validation.args.region # "" /\ validation.args.commune # ""
    /\ validation.args.topographe # "" /\ validation.args.appareil # ""
    /\ validation.args.type_leve # ""
    /\ Len(validation.errors) = 3

(***************************************************************************)
(* Properties of the submission of the entry form                          *)
(***************************************************************************)

\* the submitted values break at least one rule of validate_form_data
SubmittedInvalid(ev) ==
    validate_form_data(ev.date, ev.village, cached_form_data.region,
        cached_form_data.commune, ev.type_leve, ev.quantite, ev.appareil,
        ev.topographe) # <<>>

\* the rules of validate_form_data a stored survey breaks
RowViolations(row) ==
    validate_form_data(row.date, row.village, row.region, row.commune, row.type,
                       row.quantite, row.appareil, row.topographe)

\* C11: a run that answers a submission with validation errors changes neither
\* the survey table, nor any cache, nor the draft, nor the success flags; and
\* every survey a run of the session adds to the table breaks no validation
\* rule, so add_leve was not called with a violation.
C11_InvalidSubmitChangesNothing ==
    [][/\ form_options'.message = "validation"
             => UNCHANGED <<db, caches, cached_form_data,
                           show_success_message, form_submitted>>
       /\ \A i \in DOMAIN leves' \ DOMAIN leves : RowViolations(leves'[i]) = <<>>]_vars

\* the page shows validation errors for a submission made with a region and
\* a commune in the draft, and no survey is stored
C11_Witness ==
    /\ FormShown
    /\ form_options.message = "validation"
    /\ cached_form_data.region = "Dakar" /\ cached_form_data.commune = "Mbour"
    /\ cached_form_data.village = "" /\ cached_form_data.topographe = ""
    /\ leves = <<>> /\ ~show_success_message

\* C12: a run that stores a submitted survey ends with the draft at its empty
\* initial value (region, commune, village, appareil and topographe empty, type
\* index 0, quantite 1) and with the success flag set, and it ends in a re-run
\* request, so the form is not rendered again before the reset.
C12_SuccessResetsDraft ==
    [][DOMAIN leves' \ DOMAIN leves # {}
          => /\ cached_form_data' = [region |-> "", commune |-> "", village |-> "",
                                     appareil |-> "", type_leve |-> 0, quantite |-> 1,
                                     topographe |-> ""]
             /\ show_success_message' /\ form_submitted'
             /\ rerun' /\ ~form_options'.shown]_vars

\* a survey entered for region Dakar was just stored: the draft is empty, the
\* success flag is set and the re-run is pending
C12_Witness ==
    /\ rerun /\ ~form_options.shown
    /\ 1 \in DOMAIN leves /\ leves[1].region = "Dakar" /\ leves[1].quantite = 2
    /\ cached_form_data = EmptyDraft
    /\ show_success_message /\ form_submitted

\* C13: a run that answers a submission with the storage error (add_leve
\* returned False) leaves in the draft the values of a valid submission made on
\* the rendered form: the region and commune of the draft, and the submitted
\* village, appareil, type index, quantite and topographe; the draft is not the
\* empty draft, the success flags are unchanged, the survey table is unchanged
\* and no cache is invalidated.
C13_StoreFailureKeepsDraft ==
    [][form_options'.message = "store_error"
          => /\ \E ev \in SubmitEvents :
                   /\ ev.village \in Range(form_options.village)
                   /\ ~SubmittedInvalid(ev)
                   /\ cached_form_data' =
                         [region |-> cached_form_data.region,
                          commune |-> cached_form_data.commune,
                          village |-> ev.village, appareil |-> ev.appareil,
                          type_leve |-> get_index_or_default(type_options, ev.type_leve),
                          quantite |-> ev.quantite, topographe |-> ev.topographe]
             /\ cached_form_data' # EmptyDraft
             /\ cached_form_data'.village # "" /\ cached_form_data'.topographe # ""
             /\ UNCHANGED <<db, caches, show_success_message, form_submitted>>]_vars

\* the page shows the storage error and the draft holds the submitted village,
\* topographe and quantite; nothing is stored
C13_Witness ==
    /\ FormShown
    /\ form_options.message = "store_error"
    /\ cached_form_data.region = "Thies" /\ cached_form_data.commune = "Mbour"
    /\ cached_form_data.village = "Mbour 1"
    /\ cached_form_data.topographe = "Arona FALL" /\ cached_form_data.quantite = 2
    /\ leves = <<>> /\ ~show_success_message

(***************************************************************************)
(* Properties of the user accounts                                         *)
(***************************************************************************)
\* the ids of the rows of a users table whose username is admin
AdminIds(table) == {i \in DOMAIN table : table[i].username = "admin"}

\* C14: init_db has succeeded in the first script run; after every call of
\* init_db, add_user, delete_user and change_password (made directly or
\* through a page) the users table holds exactly one row with the username admin, and its role is
\* administrateur; and a delete_user call on the id of that row returns a
\* failure and leaves the users table as it was.
C14_SeedAdminKept ==
    [][/\ Cardinality(AdminIds(users')) = 1
       /\ \A i \in AdminIds(users') : users'[i].role = "administrateur"
       /\ (account_op'.op = "delete_user" /\ account_op'.user_id \in AdminIds(users))
             => (account_op'.result # "ok" /\ users' = users)]_vars

\* an administrator other than admin has submitted the delete form with the
\* id of admin: the call was refused and the row is still there
C14_Witness ==
    /\ acct.authenticated /\ acct.username = "bob" /\ acct.role = "administrateur"
    /\ account_op.op = "delete_user" /\ account_op.via = "admin_page"
    /\ account_op.result = "refused"
    /\ account_op.user_id \in AdminIds(users)

\* C15: a session is on an administration page only when it is authenticated
\* with the role administrateur, and a run of the administration page that
\* calls add_user or delete_user is a run of such a session; for every other
\* role, admin included, the pages change no row of the users table.
C15_AccountPagesAdministrateurOnly ==
    [][/\ (acct'.current_page \in {"Admin Users", "Admin Data"})
             => (acct'.authenticated /\ acct'.role = "administrateur")
       /\ (/\ account_op'.via = "admin_page"
           /\ account_op'.op \in {"add_user", "delete_user"}
           /\ (account_op' # account_op \/ users' # users))
             => (acct.authenticated /\ acct.role = "administrateur")
       /\ (acct.role # "administrateur" /\ users' # users)
             => account_op'.via # "admin_page"]_vars

\* a session with the role administrateur is on the users administration page
\* and has just added a topographe through its form
C15_Witness ==
    /\ acct.authenticated /\ acct.role = "administrateur"
    /\ acct.current_page = "Admin Users"
    /\ account_op.op = "add_user" /\ account_op.via = "admin_page"
    /\ account_op.result = "ok"
    /\ account_op.user_id \in DOMAIN users
    /\ users[account_op.user_id].role = "topographe"

(***************************************************************************)
(* Properties of the survey store                                          *)
(***************************************************************************)
\* C16: on the table init_db created, a run in which an authenticated
\* superviseur submits values that pass validation, with the database
\* reachable, stores a new survey whose superviseur is the username of the
\* session, and get_leves_by_superviseur returns it for that username.
C16_SuperviseurSubmitPersists ==
    [][\A ev \in SubmitEvents :
          (/\ leves_columns = InitDbColumns
           /\ FormShown
           /\ app_state.role = "superviseur"
           /\ ev.conn /\ ~SubmittedInvalid(ev)
           /\ SubmitForm(ev))
          => \E i \in DOMAIN leves' \ DOMAIN leves :
                /\ leves'[i].superviseur = app_state.username
                /\ leves'[i].topographe = ev.topographe
                /\ i \in DOMAIN (get_leves_by_superviseur(app_state.username))']_vars

\* C17: after any sequence of add_leve and update_leve calls every stored
\* survey has quantite > 0, a date not after today and a non-empty village and
\* type, and a call carrying quantite <= 0 or a future date does not succeed.
C17_RepositoryRejectsInvalid ==
    /\ \A i \in DOMAIN leves :
          /\ leves[i].quantite > 0
          /\ leves[i].date <= Today
          /\ leves[i].village # ""
          /\ leves[i].type # ""
    /\ (/\ store_op.op \in {"add_leve", "update_leve"}
        /\ (store_op.args.quantite <= 0 \/ store_op.args.date > Today))
          => store_op.result # "ok"

\* C18: a call of add_leve or update_leve whose connection cannot be obtained
\* returns a failure that is not the not-authorized result, and leaves the
\* stored surveys as they were.
C18_StorageFailureReported ==
    [][(store_op'.op \in {"add_leve", "update_leve"} /\ ~store_op'.conn)
          => (/\ store_op'.result \notin {"ok", "unauthorized"}
              /\ leves' = leves)]_vars

\* a stored survey satisfies every criterion that is present (None and the
\* empty selection are absent)
CriteriaHold(row, c) ==
    /\ (c.start_date # NoDate) => (row.date >= c.start_date)
    /\ (c.end_date # NoDate) => (row.date <= c.end_date)
    /\ (c.type_leve \notin {NULL, ""}) => (row.type = c.type_leve)
    /\ \A k \in {"village", "region", "commune", "appareil", "topographe", "superviseur"} :
          (c[k] \notin {NULL, ""}) => (row[k] = c[k])

\* C19: with the storage reachable, get_filtered_leves returns exactly the
\* stored surveys that satisfy every present criterion, and with no criterion
\* the same surveys as get_all_leves.
C19_FilterIsConjunction ==
    (store_op.op = "get_filtered_leves" /\ store_op.conn)
       => /\ store_op.ids = {i \in DOMAIN leves : CriteriaHold(leves[i], store_op.criteria)}
          /\ (store_op.criteria = NoCriteria) => (store_op.ids = DOMAIN get_all_leves)

\* two stored surveys; the region and the start date are given, the other
\* criteria absent; one of the two is returned
C19_Witness ==
    /\ store_op.op = "get_filtered_leves"
    /\ store_op.conn
    /\ store_op.criteria = [NoCriteria EXCEPT !.region = "Dakar", !.start_date = Today]
    /\ DOMAIN leves = {1, 2}
    /\ leves[1].region = "Thies"
    /\ leves[2].region = "Dakar" /\ leves[2].date = Today
    /\ store_op.ids = {2}

\* a row with its three values present and not blank
WellFormedRow(row) ==
    /\ row.region # NULL /\ row.commune # NULL /\ row.village # NULL
    /\ strip(row.region) # "" /\ strip(row.commune) # "" /\ strip(row.village) # ""

\* the trimmed villages the rows supply for a pair
SuppliedVillages(rows, region, commune) ==
    {strip(rows[i].village) :
        i \in {j \in 1..Len(rows) : /\ strip(rows[j].region) = region
                                     /\ strip(rows[j].commune) = commune}}

\* C20: when every row is well-formed, the village list read for a pair that
\* occurs in the rows is, after the leading empty selection, exactly the
\* distinct trimmed villages the rows supply for that pair, in ascending order.
C20_HierarchyRoundTrip ==
    (/\ hierarchy.read
     /\ \A i \in 1..Len(hierarchy.rows) : WellFormedRow(hierarchy.rows[i])
     /\ SuppliedVillages(hierarchy.rows, hierarchy.region, hierarchy.commune) # {})
       => /\ Head(hierarchy.villages) = ""
          /\ Tail(hierarchy.villages)
                = sorted(SuppliedVillages(hierarchy.rows, hierarchy.region,
                                          hierarchy.commune))

\* C23: for a caller who is not an administrator, update_leve and
\* delete_user_leve give the same result for an id without a stored row as
\* for a stored survey of another superviseur, whatever the other arguments.
C23_NoOwnershipOracle ==
    \A username \in Actors, user_role \in {"superviseur", "topographe"},
       conn \in BOOLEAN, conn2 \in BOOLEAN, a \in StoreArgs :
       \A i \in (1..(MaxStoreLeves + 1)) \ DOMAIN leves,
          j \in {k \in DOMAIN leves : leves[k].superviseur # username} :
          /\ update_leve_result(conn, conn2, i, a, username, user_role)
                = update_leve_result(conn, conn2, j, a, username, user_role)
          /\ delete_user_leve_result(conn, conn2, i, username, user_role)
                = delete_user_leve_result(conn, conn2, j, username, user_role)

\* bob asked to update the stored survey 1 of alice: not authorized; id 2 has
\* no row
C23_Witness ==
    /\ store_op.op = "update_leve"
    /\ store_op.username = "bob" /\ store_op.user_role = "superviseur"
    /\ store_op.conn /\ store_op.conn2
    /\ store_op.leve_id = 1
    /\ DOMAIN leves = {1}
    /\ leves[1].superviseur = "alice"
    /\ store_op.result = "unauthorized"
    /\ update_leve_result(TRUE, TRUE, 2, store_op.args, "bob", "superviseur")
          = "unauthorized"

\* C27: a successful update_leve writes the eight given values into the
\* targeted survey in one step and changes nothing else: the ids, the
\* survey's superviseur and every other survey stay as they were; no call
\* changes the superviseur of a stored survey.
C27_UpdateFrame ==
    [][/\ (store_op'.op = "update_leve" /\ store_op'.result = "ok")
            => /\ DOMAIN leves' = DOMAIN leves
               /\ store_op'.leve_id \in DOMAIN leves
               /\ \A i \in DOMAIN leves \ {store_op'.leve_id} : leves'[i] = leves[i]
               /\ \A f \in DOMAIN store_op'.args :
                     leves'[store_op'.leve_id][f] = store_op'.args[f]
               /\ leves'[store_op'.leve_id].superviseur
                     = leves[store_op'.leve_id].superviseur
       /\ \A i \in DOMAIN leves \cap DOMAIN leves' :
             leves'[i].superviseur = leves[i].superviseur]_vars

\* alice rewrote her survey 1 with the second set of values; survey 2 of bob
\* is stored too
C27_Witness ==
    /\ store_op.op = "update_leve" /\ store_op.result = "ok"
    /\ store_op.leve_id = 1 /\ store_op.username = "alice"
    /\ store_op.user_role = "superviseur"
    /\ DOMAIN leves = {1, 2}
    /\ leves[1].superviseur = "alice" /\ leves[1].region = "Thies"
    /\ leves[1].topographe = "tom" /\ leves[1].quantite = 2
    /\ leves[2].superviseur = "bob" /\ leves[2].region = "Dakar"

\* C28: a delete of an id that has no stored row does not report success, on
\* delete_leve as on delete_user_leve.
C28_DeleteMissingFails ==
    [][(/\ store_op'.op \in {"delete_leve", "delete_user_leve"}
        /\ store_op'.leve_id \notin DOMAIN leves)
          => store_op'.result # "ok"]_vars

\* C26: when a superviseur submits the Suivi page's own-survey delete form
\* with the id of a survey they own, the survey is removed from the table.
C26_OwnDeleteRemoves ==
    [][\A leve_id \in 1..MaxLeves :
          (/\ app_state.role = "superviseur"
           /\ leve_id \in DOMAIN leves
           /\ leves[leve_id].superviseur = app_state.username
           /\ DeleteOwnLeve(leve_id))
             => /\ leve_id \notin DOMAIN leves'
                /\ form_options'.message # "exception"]_vars

\* C24: add_user with a username no stored user has and the empty email of
\* the forms succeeds and stores the user, whoever else has no email; a failed
\* add_user leaves the table unchanged.
C24_EmailOptional ==
    [][/\ \A username \in RegistrationNames :
            (/\ \A i \in DOMAIN users : users[i].username # username
             /\ AddUser(username, "secret", "", "topographe", TRUE))
               => /\ account_op'.result = "ok"
                  /\ \E i \in DOMAIN users' \ DOMAIN users :
                        users'[i].username = username /\ users'[i].email = ""
       /\ (account_op'.op = "add_user" /\ account_op'.result # "ok")
            => users' = users]_vars

\* the session's hierarchy failed to load
LoadFailed == cache_villages.valid /\ DOMAIN cache_villages.val = {}

C25_HierarchyReloadedOnlyOnExpiry ==
    [][cache_villages.valid => cache_villages'.valid]_vars

\* C29: every survey stored by the entry form has a location triple of the
\* hierarchy: its region is a region of villages_data, its commune a commune
\* of that region and its village a village of that commune.
C29_StoredTripleInHierarchy ==
    \A i \in DOMAIN leves :
        /\ leves[i].region \in DOMAIN villages_data
        /\ leves[i].commune \in DOMAIN villages_data[leves[i].region]
        /\ leves[i].village \in Range(villages_data[leves[i].region][leves[i].commune])

\* a survey was stored for the commune that two regions share, under the
\* second of them
C29_Witness ==
    /\ 1 \in DOMAIN leves
    /\ leves[1].region = "Thies"
    /\ leves[1].commune = "Mbour"
    /\ leves[1].village = "Mbour 1"
    /\ leves[1].superviseur = "Arona FALL"

\* the delete forms of the Suivi page, submitted for every id
GuestDeleteEvents ==
    {[NoEvent EXCEPT !.kind = k, !.leve_id = i, !.conn = c] :
        k \in {"delete_own", "delete_admin"}, i \in 1..MaxLeves, c \in BOOLEAN}

\* C30: a step of a session that is not logged in leaves the surveys as they
\* are; a session becomes authenticated only by a submit of the login form,
\* as a stored user whose password was among the passwords typed, with the
\* role stored for that user; a logout leaves the session unauthenticated;
\* and in no guest state can a run of the entry page or of the Suivi page,
\* whatever event it is given, change the surveys.
C30_GuestWritesNothing ==
    /\ [][/\ (~app_state.authenticated) => UNCHANGED <<leves, next_id, leves_columns>>
          /\ (~app_state.authenticated /\ app_state'.authenticated)
               => /\ app_state.show_login
                  /\ app_state'.username \in DOMAIN Users
                  /\ UserPasswords[app_state'.username] \in LoginPasswords
                  /\ app_state'.role = Users[app_state'.username]
          /\ Logout => ~app_state'.authenticated]_vars
    /\ [](~app_state.authenticated =>
            \A ev \in SubmitEvents \cup GuestDeleteEvents :
               /\ ~ENABLED (/\ show_saisie_page(region_select, commune_select, ev)
                            /\ leves' # leves)
               /\ ~ENABLED (/\ show_suivi_page(ev)
                            /\ leves' # leves))

\* after a logout, with a survey stored, the login form was submitted with a
\* password that verify_user did not find and the session is still a guest
C30_Witness ==
    /\ ~app_state.authenticated
    /\ app_state.show_login
    /\ form_options.message = "login_error"
    /\ leves # <<>>

====
